---- MODULE Spec2Model ----
(***************************************************************************)
(* Model of the anSWer Logging Hub session state machine                   *)
(* (src/src/ui/main_window.py, class MainWindow): the automation handle,   *)
(* the tracked recording flag, the Recording Run fields, the re-arming     *)
(* timer callbacks (measurement sync, comment file-name resolution), the   *)
(* Start/Stop, Discard and Save-comment handlers, and the part of the file *)
(* system and of the external engine these handlers read and write.        *)
(*                                                                         *)
(* Strings that the code takes apart (file names) are sequences of atoms;  *)
(* an atom stands for a run of characters that the code never splits.      *)
(* Times are whole seconds.                                                *)
(***************************************************************************)
EXTENDS Integers, Sequences, FiniteSets, TLC

\* ------------------------------------------------------------------ bounds
\* Wall clock values are 0..MaxClock.
MaxClock == 1
\* At most this many resolver poll callbacks are pending on the event loop.
MaxPendingPolls == 2
\* At most this many comment lines are kept in one comment file.
MaxComments == 1
\* At most this many entries are in the run folder when a run begins.
MaxEntries == 3
\* The number of failed attempts after which the resolver still polls again:
\* the 30 of `if self._resolve_tries <= 30`, scaled down. The increment and the
\* comparison are the code's.
MaxResolveTries == 2

\* ------------------------------------------------------- program constants
\* `mtime + 1.0 < start_ts` in the resolver and in the discard scan
Tolerance == 1

\* ------------------------------------------------------------------ values
\* Python's None, for each kind of value that can be None.
None == "None"
NoPath == [dir |-> "None", name |-> <<>>]
NoPrefix == <<>>
NoStart == -1
\* best_path = None, best_mtime = -1.0
NoFile == [dir |-> "None", name |-> <<>>, kind |-> "file", mtime |-> -1,
           content |-> <<>>]

\* The extensions the resolver ignores (ignore_ext), lower case.
IgnoreExt == {".txt", ".avi", ".tmp"}
\* Every atom that is an extension: a dot followed by letters.
Exts == {".blf", ".txt", ".avi", ".tmp", ".AVI"}

\* str.lower() on an extension.
Lower(e) == IF e = ".AVI" THEN ".avi" ELSE e

\* str.startswith
StartsWith(s, p) == Len(p) <= Len(s) /\ SubSeq(s, 1, Len(p)) = p

\* pathlib's Path.suffix: the last dot component of the name ("" if none).
PathSuffix(name) ==
    IF Len(name) > 0 /\ name[Len(name)] \in Exts THEN name[Len(name)] ELSE ""

\* pathlib's Path.stem: the name without its suffix.
PathStem(name) ==
    IF PathSuffix(name) = "" THEN name ELSE SubSeq(name, 1, Len(name) - 1)

\* s[len(p):]
DropPrefix(s, p) == SubSeq(s, Len(p) + 1, Len(s))

\* datetime.now().strftime("%Y-%m-%d_%H-%M-%S") at wall clock c, as one atom.
TsAtoms == <<"t0", "t1", "t2", "t3", "t4", "t5", "t6", "t7">>
TsAtom(c) == TsAtoms[c + 1]

\* ---------------------------------------------------------- session naming
\* base_prefix of the session metadata in use (release, vehicle token, tag).
BasePrefix == <<"P">>
\* log_folder = release_dir / f"{rel}_{date}" / base_prefix
LogFolder == "F"

\* The token the engine substitutes for {MeasurementStart}.
EngineToken == <<"a">>

\* Engine output of the logging sink: <log_folder>/<base_prefix>_<token>.blf
MainName(tok) == BasePrefix \o <<"_">> \o tok \o <<".blf">>
\* Engine output of the video sink: <log_folder>/_<base_prefix>_<token>_<name>.avi
VideoName(tok) == <<"_">> \o BasePrefix \o <<"_">> \o tok \o <<"_", "Cam1", ".avi">>

\* self._set_status(text, tone=tone)
Status(text, tone) == [text |-> text, tone |-> tone]

\* No call of _set_status.
NoStatus == Status("", "")

\* What a step did: the handler (or part of the environment) that ran, the
\* branch it took, the engine, file system and timer calls it made, in order,
\* and the last status it set (NoStatus when it set none).
Did(h, out, calls, st) == [h |-> h, out |-> out, calls |-> calls, status |-> st]

VARIABLES
    canoe,                \* self.canoe: TRUE when a COM handle is held
    is_recording,         \* self.is_recording
    last_meas_running,    \* self.last_meas_running: "None", "True" or "False"
    comment_file_path,    \* self.comment_file_path: NoPath or [dir, name]
    current_log_folder,   \* self._current_log_folder: None or a folder
    current_prefix,       \* self._current_prefix: NoPrefix or a sequence of atoms
    resolve_tries,        \* self._resolve_tries
    record_start_wallclock, \* self._record_start_wallclock: NoStart or a time
    comment_metadata_written, \* self._comment_metadata_written
    btn_record,           \* the Start/Stop button: [text, state]
    btn_discard,          \* state of the Discard button
    btn_save_comment,     \* state of the Save-comment button
    pendingSync,          \* _sync_measurement_ui callbacks scheduled with after():
                          \* "none", "one" or "several"
    pendingPolls,         \* _try_resolve_comment_filename_poll callbacks scheduled
    engRunning,           \* engine: Measurement.Running
    engBroken,            \* engine: the COM server is gone, every call raises
    dirs,                 \* file system: the folders that exist
    files,                \* file system: set of [dir, name, kind, mtime, content],
                          \* kind "file" (regular file) or "dir"
    clock,                \* wall clock (seconds)
    last,                 \* history: what the last step did (see Did)
    hist,                 \* history: counters of the current Recording Run
    form,                 \* the naming fields of the window: sw_rel, vehicle_id,
                          \* log_tag, and the catalog descriptor and fleet number
                          \* of the vehicle
    naming,               \* veh and base_prefix as Start computes them from the form
    scan,                 \* the installations found on disk, in scan order
    installs,             \* the list discover_canoe_installations returns
    conn,                 \* a connect attempt: what the COM servers answer and
                          \* the handle obtained
    store                 \* the persisted settings: the AppState in memory, the
                          \* state file, and what AppState.load last returned

progVars == <<canoe, is_recording, last_meas_running, resolve_tries,
              btn_record, btn_discard, btn_save_comment>>
runVars == <<comment_file_path, current_log_folder, current_prefix,
             record_start_wallclock, comment_metadata_written>>
timerVars == <<pendingSync, pendingPolls>>
engVars == <<engRunning, engBroken>>
fsVars == <<dirs, files>>
\* The inputs and results of the naming, discovery and attach functions.
pureVars == <<form, naming, scan, installs, conn, store>>
vars == <<progVars, runVars, timerVars, engVars, fsVars, clock, last, hist, pureVars>>

\* hist, counted since the last Start, Stop or Discard: attempts = resolution
\* attempts made by polls; fallbacks = times a poll set the wall-clock
\* fallback name; changes = times a poll changed comment_file_path; renames =
\* times a poll tried to rename the comment file.
Hist0 == [attempts |-> 0, fallbacks |-> 0, changes |-> 0, renames |-> 0]

\* The naming form before anything is entered or selected.
NoForm == [sw_rel |-> <<>>, vehicle_id |-> <<>>, log_tag |-> <<>>,
           descriptor |-> <<>>, number |-> <<>>]

\* What asking a COM server for an application object gives: the call raises,
\* or it gives a handle. A handle has a Version text, kept as the numbers of
\* its first dotted number; readable is FALSE when reading Version raises.
Raises == [kind |-> "raise", readable |-> FALSE, Version |-> <<>>]
Handle(readable, version) == [kind |-> "handle", readable |-> readable, Version |-> version]

\* Python's None where a handle is expected.
NoHandle == [kind |-> "none", readable |-> FALSE, Version |-> <<>>]

\* No connect attempt has been made: expected is the expected major version
\* (<<>> for None), attach and spawn are the answers of the COM servers per
\* poll round and candidate id, handle is what the attempt obtained.
NoConn == [expected |-> <<>>, attach |-> <<>>, spawn |-> <<>>, handle |-> NoHandle]

\* The fields of AppState, in the order of the dataclass.
FieldOrder == <<"cfg_file", "tag", "sw_rel", "me_version", "vehicle_id", "canoe_exec",
                "log_dir">>
Fields == {FieldOrder[i] : i \in 1..Len(FieldOrder)}

\* AppState(): every field is "".
DefaultState == [k \in Fields |-> <<>>]

\* No state file on disk.
MissingFile == [kind |-> "missing", pairs |-> <<>>]

\* Nothing saved and nothing loaded.
NoStore == [state |-> DefaultState, file |-> MissingFile, loaded |-> DefaultState]

\* Start has not computed a name.
NoNaming == [veh |-> <<>>, base_prefix |-> <<>>]

\* The naming, discovery and attach functions have not been applied.
PureIdle ==
    /\ form = NoForm
    /\ naming = NoNaming
    /\ scan = <<>>
    /\ installs = <<>>
    /\ conn = NoConn
    /\ store = NoStore

\* State after MainWindow.__init__: not connected, no Recording Run, buttons
\* disabled, one sync callback scheduled.
WindowInit ==
    /\ canoe = FALSE
    /\ is_recording = FALSE
    /\ last_meas_running = None
    /\ comment_file_path = NoPath
    /\ current_log_folder = None
    /\ current_prefix = NoPrefix
    /\ resolve_tries = 0
    /\ record_start_wallclock = NoStart
    /\ comment_metadata_written = FALSE
    /\ btn_record = [text |-> "Start recording", state |-> "disabled"]
    /\ btn_discard = "disabled"
    /\ btn_save_comment = "disabled"
    /\ pendingSync = "one"
    /\ pendingPolls = 0
    /\ engRunning = FALSE
    /\ engBroken = FALSE
    /\ dirs = {}
    /\ files = {}
    /\ clock = 0
    /\ last = Did("init", "", <<>>, Status("Not connected", "muted"))
    /\ hist = Hist0

Init == WindowInit /\ PureIdle

\* ------------------------------------------------------- measurement sync
\* `bool(self.canoe.Measurement.Running) if self.canoe else False`, with the
\* handle h on an engine that is gone (broken) or measuring (running):
\* "raise" when the read raises.
ReadRunning(h, broken, running) ==
    IF ~h THEN "False"
    ELSE IF broken THEN "raise"
    ELSE IF running THEN "True" ELSE "False"

\* A _sync_measurement_ui that reacts only to a measurement that has started.
SyncSeesChange_m(running, lmr) == running # lmr /\ running = "True"

\* `if running != self.last_meas_running`
SyncSeesChange(running, lmr) == running # lmr

\* The status _sync_measurement_ui sets, if any, having read r with handle h.
SyncStatus(h, lmr, r) ==
    LET running == IF r = "True" THEN "True" ELSE "False"
    IN  IF ~SyncSeesChange(running, lmr) THEN NoStatus
        ELSE IF running = "True" THEN Status("Measurement running", "success")
        ELSE IF ~h \/ r = "raise" THEN Status("Not connected", "danger")
        ELSE Status("Measurement stopped", "info")

\* The body of _sync_measurement_ui up to the re-arming, called with handle h
\* and last_meas_running lmr, r being what the read of the running flag gave:
\* the handle is dropped when the read raised; the tracked flag and the
\* buttons change only when the flag read differs from lmr.
SyncMeasurementUi(h, lmr, r) ==
    LET running == IF r = "True" THEN "True" ELSE "False"
        h2 == IF r = "raise" THEN FALSE ELSE h
    IN  /\ canoe' = h2
        /\ IF SyncSeesChange(running, lmr)
           THEN /\ last_meas_running' = running
                /\ is_recording' = (running = "True")
                /\ IF running = "True"
                   THEN /\ btn_record' = [text |-> "Stop recording", state |-> "normal"]
                        /\ btn_discard' = "normal"
                        /\ btn_save_comment' = "normal"
                   ELSE /\ btn_save_comment' = "disabled"
                        /\ btn_discard' = "disabled"
                        /\ btn_record' = [text |-> "Start recording",
                                          state |-> IF ~h2 THEN "disabled" ELSE "normal"]
           ELSE /\ last_meas_running' = lmr
                /\ UNCHANGED <<is_recording, btn_record, btn_discard, btn_save_comment>>

\* A _sync_measurement_ui that re-arms only while a measurement is running.
SyncRearms_m(r) == r = "True"

\* Whether _sync_measurement_ui, having read r, ends with
\* self.after(500, self._sync_measurement_ui): it does on every path.
SyncRearms(r) == TRUE

\* The callbacks scheduled after one of n fired: "several" is two or more.
OneFired(n) == IF n = "one" THEN {"none"} ELSE {"one", "several"}
\* The callbacks scheduled after one more is scheduled.
OneMore(n) == IF n = "none" THEN "one" ELSE "several"

\* A scheduled _sync_measurement_ui callback fires.
SyncTick ==
    /\ pendingSync # "none"
    /\ LET r == ReadRunning(canoe, engBroken, engRunning)
       IN /\ SyncMeasurementUi(canoe, last_meas_running, r)
          /\ IF SyncRearms(r) THEN pendingSync' = pendingSync
                              ELSE pendingSync' \in OneFired(pendingSync)
          /\ last' = Did("sync", r, <<IF canoe THEN "handle" ELSE "no handle",
                                      IF is_recording THEN "recording" ELSE "idle">>,
                         SyncStatus(canoe, last_meas_running, r))
    /\ UNCHANGED <<resolve_tries, runVars, pendingPolls, engVars, fsVars, clock, hist>>
    /\ UNCHANGED pureVars

\* ------------------------------------------------------------------ connect
\* _open_or_connect_canoe / _connect_selected_canoe with an installation
\* selected: nothing when a handle is held; otherwise attach to (or spawn) the
\* engine, which yields a handle or none. A handle obtained after the engine
\* was gone is one to a freshly launched engine. On success last_meas_running
\* is reset to None and _sync_measurement_ui is called directly, which
\* schedules one more sync callback.
ConnectSelectedCanoe ==
    \/ /\ canoe
       /\ last' = Did("connect", "already", <<>>, Status("Already connected to CANoe", "info"))
       /\ UNCHANGED <<progVars, runVars, timerVars, engVars, fsVars, clock, hist, pureVars>>
    \/ /\ ~canoe
       /\ last' = Did("connect", "failed", <<>>, Status("Cannot connect to the selected CANoe version", "danger"))
       /\ UNCHANGED <<progVars, runVars, timerVars, engVars, fsVars, clock, hist, pureVars>>
    \/ /\ ~canoe
       /\ engBroken' = FALSE
       /\ engRunning' = (IF engBroken THEN FALSE ELSE engRunning)
       /\ LET r == ReadRunning(TRUE, FALSE, ~engBroken /\ engRunning)
          IN /\ SyncMeasurementUi(TRUE, None, r)
             /\ pendingSync' = IF SyncRearms(r) THEN OneMore(pendingSync) ELSE pendingSync
             /\ last' = Did("connect", "connected", <<"sync">>, SyncStatus(TRUE, None, r))
       /\ UNCHANGED <<resolve_tries, runVars, pendingPolls, fsVars, clock, hist, pureVars>>

\* -------------------------------------------------------------- file system
\* A regular file.
File(d, n, m, c) == [dir |-> d, name |-> n, kind |-> "file", mtime |-> m, content |-> c]

\* folder.iterdir(): the entries of folder d in file system fs.
FilesIn(fs, d) == {f \in fs : f.dir = d}

\* path.exists() for a comment file path.
Exists(fs, path) == \E f \in fs : f.dir = path.dir /\ f.name = path.name

\* The entry at a path that exists.
FileAt(fs, path) == CHOOSE f \in fs : f.dir = path.dir /\ f.name = path.name

\* The file system without the entry at path.
Without(fs, path) == {f \in fs : ~(f.dir = path.dir /\ f.name = path.name)}

\* The orders in which iterdir() can yield the entries S.
RECURSIVE Orders(_)
Orders(S) ==
    IF S = {} THEN {<<>>}
    ELSE UNION {{<<p>> \o o : o \in Orders(S \ {p})} : p \in S}

\* ------------------------------------------------------------ output resolver
\* A scan loop without the test on the modification time.
ScanKeeps_m(p, prefix, start_ts) ==
    /\ p.kind = "file"
    /\ StartsWith(p.name, prefix)
    /\ Lower(PathSuffix(p.name)) \notin IgnoreExt

\* The filters of the scan loop of _try_resolve_comment_filename_once: the
\* entries that are not skipped with `continue`.
ScanKeeps(p, prefix, start_ts) ==
    /\ p.kind = "file"
    /\ StartsWith(p.name, prefix)
    /\ Lower(PathSuffix(p.name)) \notin IgnoreExt
    /\ ~(p.mtime + Tolerance < start_ts)

\* `if mtime > best_mtime: best_mtime = mtime; best_path = p`
ScanStep(best, p) == IF p.mtime > best.mtime THEN p ELSE best

\* The scan loop over the kept entries in iteration order.
RECURSIVE ScanBest(_, _)
ScanBest(order, best) ==
    IF order = <<>> THEN best ELSE ScanBest(Tail(order), ScanStep(best, Head(order)))

\* The suffix one attempt finds in file system fs, <<>> when it finds none:
\* no Recording Run, the folder cannot be listed, nothing is kept by the
\* scan, or the newest kept file has an empty suffix. order is the iteration
\* order of the kept entries.
ResolveSuffix(fs, ds, folder, prefix, start_ts, order) ==
    IF folder = None \/ prefix = NoPrefix \/ start_ts = NoStart THEN <<>>
    ELSE IF folder \notin ds THEN <<>>
    ELSE LET best == ScanBest(order, NoFile)
         IN IF best = NoFile THEN <<>>
            ELSE DropPrefix(PathStem(best.name), prefix)

\* The entries of the folder the scan keeps.
ScanKept(fs, folder, prefix, start_ts) ==
    {p \in FilesIn(fs, folder) : ScanKeeps(p, prefix, start_ts)}

\* `if self._resolve_tries <= 30` after the increment: poll again.
PollAgain(tries) == tries <= MaxResolveTries

\* A poll callback that looks at nothing and schedules itself again.
TryResolveCommentFilenamePoll_m ==
    /\ pendingPolls >= 1
    /\ last' = Did("poll", "retry", <<"after_poll">>, NoStatus)
    /\ UNCHANGED <<progVars, runVars, timerVars, engVars, fsVars, clock, hist, pureVars>>

\* _try_resolve_comment_filename_poll, a scheduled callback firing. It does
\* nothing when the Recording Run is cleared. Otherwise one attempt
\* (_try_resolve_comment_filename_once): on a match the comment file, if it
\* exists under another path, is renamed (the rename may fail: renameOk), the
\* path is set unless the rename failed, and polling stops; on no match the
\* try counter is incremented and either the poll is re-armed or the
\* wall-clock fallback name is set. The fallback branch is reached after 31
\* timer periods of 0.5 s, so the wall clock has advanced since Start.
TryResolveCommentFilenamePoll ==
    /\ pendingPolls >= 1
    /\ \/ /\ (current_log_folder = None \/ current_prefix = NoPrefix)
          /\ pendingPolls' = pendingPolls - 1
          /\ last' = Did("poll", "cleared", <<>>, NoStatus)
          /\ UNCHANGED <<progVars, runVars, pendingSync, engVars, fsVars, clock, hist>>
       \/ /\ ~(current_log_folder = None \/ current_prefix = NoPrefix)
          /\ \E order \in Orders(ScanKept(files, current_log_folder, current_prefix,
                                         record_start_wallclock)),
                renameOk \in BOOLEAN :
              LET suffix == ResolveSuffix(files, dirs, current_log_folder, current_prefix,
                                          record_start_wallclock, order)
                  new_path == [dir |-> current_log_folder,
                               name |-> current_prefix \o suffix \o <<".txt">>]
                  mustRename == /\ comment_file_path # NoPath
                                /\ comment_file_path # new_path
                                /\ Exists(files, comment_file_path)
              IN IF suffix # <<>>
                 THEN \* resolved
                      /\ (~mustRename => renameOk)
                      /\ IF mustRename /\ ~renameOk
                         THEN /\ UNCHANGED <<comment_file_path, files>>
                              /\ last' = Did("poll", "rename failed", <<"rename">>,
                                             Status("Comments to file", "info"))
                         ELSE /\ comment_file_path' = new_path
                              /\ files' = IF mustRename
                                          THEN Without(Without(files, new_path), comment_file_path)
                                               \cup {[FileAt(files, comment_file_path)
                                                      EXCEPT !.name = new_path.name]}
                                          ELSE files
                              /\ last' = Did("poll", "resolved",
                                             IF mustRename THEN <<"rename">> ELSE <<>>,
                                             Status("Comments to file", "info"))
                      /\ pendingPolls' = pendingPolls - 1
                      /\ hist' = [hist EXCEPT
                                    !.attempts = @ + 1,
                                    !.changes = IF comment_file_path' # comment_file_path
                                                THEN @ + 1 ELSE @,
                                    !.renames = IF mustRename THEN @ + 1 ELSE @]
                      /\ UNCHANGED <<resolve_tries>>
                 ELSE \* not resolved
                      /\ renameOk
                      /\ resolve_tries' = resolve_tries + 1
                      /\ IF PollAgain(resolve_tries + 1)
                         THEN /\ pendingPolls' = pendingPolls
                              /\ last' = Did("poll", "retry", <<"after_poll">>, NoStatus)
                              /\ hist' = [hist EXCEPT !.attempts = @ + 1]
                              /\ UNCHANGED <<comment_file_path>>
                         ELSE /\ clock > record_start_wallclock
                              /\ pendingPolls' = pendingPolls - 1
                              /\ comment_file_path' =
                                    [dir |-> current_log_folder,
                                     name |-> current_prefix \o <<TsAtom(clock)>> \o <<".txt">>]
                              /\ last' = Did("poll", "fallback", <<>>,
                                             Status("Could not resolve MeasurementStart",
                                                    "warning"))
                              /\ hist' = [hist EXCEPT
                                            !.attempts = @ + 1,
                                            !.fallbacks = @ + 1,
                                            !.changes = IF comment_file_path' # comment_file_path
                                                        THEN @ + 1 ELSE @]
                      /\ UNCHANGED files
          /\ UNCHANGED <<canoe, is_recording, last_meas_running, btn_record, btn_discard,
                         btn_save_comment, current_log_folder, current_prefix,
                         record_start_wallclock, comment_metadata_written,
                         pendingSync, engVars, dirs, clock>>
    /\ UNCHANGED pureVars

\* ---------------------------------------------------------------- start/stop
\* A reset that forgets the start time.
ResetCurrentSessionState_m ==
    /\ comment_file_path' = NoPath
    /\ current_log_folder' = None
    /\ current_prefix' = NoPrefix
    /\ record_start_wallclock' = record_start_wallclock
    /\ comment_metadata_written' = FALSE

\* _reset_current_session_state
ResetCurrentSessionState ==
    /\ comment_file_path' = NoPath
    /\ current_log_folder' = None
    /\ current_prefix' = NoPrefix
    /\ record_start_wallclock' = NoStart
    /\ comment_metadata_written' = FALSE

\* What _resolve_log_root and the checks on it can find wrong.
LogRootProblems == {"Log directory is not configured", "Log directory does not exist",
                    "Log path is not a folder"}

\* What the log directory field can hold: nothing, white space only, the path
\* of nothing, the path of a regular file, the path of a folder.
LogRoots == {"", "  ", "missing", "file", "dir"}

\* A Start that does not test `log_root.is_dir()`.
LogRootCheck_m(raw) ==
    IF raw \in {"", "  "} THEN "Log directory is not configured"
    ELSE IF raw = "missing" THEN "Log directory does not exist"
    ELSE "ok"

\* _resolve_log_root and the three checks of the Start branch on its result,
\* for the content raw of the log directory field: the first problem found,
\* or "ok". The field is stripped, and an empty one resolves to None.
LogRootCheck(raw) ==
    IF raw \in {"", "  "} THEN "Log directory is not configured"
    ELSE IF raw = "missing" THEN "Log directory does not exist"
    ELSE IF raw = "file" THEN "Log path is not a folder"
    ELSE "ok"

\* What the engine calls of the Start branch can do: all succeed; the logging
\* sink raises (caught, Start goes on); the video sink raises; Measurement.Start
\* raises.
StartOutcomes == {"ok", "logging raises", "video raises", "start raises"}

\* Whether Measurement.Start() is reached and returns under outcome o: an
\* exception of the logging sinks is caught where it is raised and Start goes on.
StartReturns(o) == o \in {"ok", "logging raises"}

\* The calls of the Start branch from the creation of the run folder on, in
\* the order the code makes them, under outcome o. "logging sinks" is the
\* loop that rewrites FullName of every logging block, "video sinks" the loop
\* that rewrites RecordFile of every video window; "... raise" is such a loop
\* left by an exception before it has rewritten every sink; "start" is
\* Measurement.Start() returning, "after_poll" the arming of the resolver poll.
StartCalls(o) ==
    <<"mkdir", "set run fields", "write comment metadata">>
    \o (IF o = "logging raises" THEN <<"logging sinks raise">> ELSE <<"logging sinks">>)
    \o (IF o = "video raises" THEN <<"video sinks raise">>
        ELSE <<"video sinks">>
             \o (IF o = "start raises" THEN <<"start raises">>
                 ELSE <<"start", "after_poll">>))

\* The Start/Stop button is clicked (the button is enabled): _on_start_stop_click.
OnStartStopClick ==
    /\ btn_record.state = "normal"
    /\ \/ \* no handle
          /\ ~canoe
          /\ last' = Did("startstop", "no handle", <<>>, Status("Not connected", "danger"))
          /\ UNCHANGED <<progVars, runVars, timerVars, engVars, fsVars, clock, hist>>
       \/ \* reading Measurement.Running raises
          /\ canoe /\ engBroken
          /\ canoe' = FALSE
          /\ last' = Did("startstop", "lost", <<"running?">>,
                         Status("Lost CANoe connection", "danger"))
          /\ UNCHANGED <<is_recording, last_meas_running, resolve_tries, btn_record,
                         btn_discard, btn_save_comment, runVars, timerVars, engVars,
                         fsVars, clock, hist>>
       \/ \* STOP CASE, Measurement.Stop() raises
          /\ canoe /\ ~engBroken /\ engRunning
          /\ last' = Did("startstop", "stop failed", <<"running?", "stop">>,
                         Status("Stop failed", "danger"))
          /\ UNCHANGED <<progVars, runVars, timerVars, engVars, fsVars, clock, hist>>
       \/ \* STOP CASE
          /\ canoe /\ ~engBroken /\ engRunning
          /\ engRunning' = FALSE
          /\ ResetCurrentSessionState
          /\ hist' = Hist0
          /\ last' = Did("startstop", "stopped", <<"running?", "stop">>, NoStatus)
          /\ UNCHANGED <<progVars, timerVars, engBroken,
                         fsVars, clock>>
       \/ \* START CASE, refused: the log root is not usable
          /\ canoe /\ ~engBroken /\ ~engRunning
          /\ \E raw \in LogRoots :
                /\ LogRootCheck(raw) # "ok"
                /\ last' = Did("startstop", "refused", <<"running?", "log root", raw>>,
                               Status(LogRootCheck(raw), "danger"))
          /\ UNCHANGED <<progVars, runVars, timerVars, engVars, fsVars, clock, hist>>
       \/ \* START CASE
          /\ canoe /\ ~engBroken /\ ~engRunning
          /\ \E raw \in LogRoots, o \in StartOutcomes, written \in BOOLEAN :
                LET path == [dir |-> LogFolder,
                             name |-> BasePrefix \o <<"_", TsAtom(clock)>> \o <<".txt">>]
                    started == StartReturns(o)
                IN  /\ LogRootCheck(raw) = "ok"
                    /\ started => pendingPolls < MaxPendingPolls
                    \* log_folder.mkdir(parents=True, exist_ok=True)
                    /\ dirs' = dirs \cup {LogFolder}
                    /\ current_log_folder' = LogFolder
                    /\ current_prefix' = BasePrefix \o <<"_">>
                    /\ record_start_wallclock' = clock
                    /\ comment_file_path' = path
                    \* _write_comment_metadata: open(path, "w"), which may fail
                    /\ comment_metadata_written' = written
                    /\ files' = IF written
                                THEN Without(files, path)
                                     \cup {File(path.dir, path.name, clock, <<"header">>)}
                                ELSE files
                    /\ hist' = Hist0
                    /\ engRunning' = started
                    /\ IF started
                       THEN \* _schedule_comment_filename_resolution
                            /\ resolve_tries' = 0
                            /\ pendingPolls' = pendingPolls + 1
                            /\ last' = Did("startstop", "started",
                                           <<"running?", "log root", raw>> \o StartCalls(o),
                                           IF o = "ok" THEN NoStatus
                                           ELSE Status("Could not set logging blocks", "warning"))
                       ELSE /\ last' = Did("startstop", "aborted",
                                           <<"running?", "log root", raw>> \o StartCalls(o),
                                           Status("Error on logging setup/start", "danger"))
                            /\ UNCHANGED <<resolve_tries, pendingPolls>>
          /\ UNCHANGED <<canoe, is_recording, last_meas_running, btn_record, btn_discard,
                         btn_save_comment, pendingSync, engBroken, clock>>
    /\ UNCHANGED pureVars

\* -------------------------------------------------------------------- discard
\* _resolve_current_log_suffix: the same scan as the resolver's, on the folder
\* as it is when Discard runs.
ResolveCurrentLogSuffix(fs, ds, folder, prefix, start_ts, order) ==
    IF folder = None \/ prefix = NoPrefix \/ start_ts = NoStart THEN <<>>
    ELSE IF folder \notin ds THEN <<>>
    ELSE LET best == ScanBest(order, NoFile)
         IN IF best = NoFile THEN <<>>
            ELSE IF ~StartsWith(PathStem(best.name), prefix) THEN <<>>
            ELSE DropPrefix(PathStem(best.name), prefix)

\* The test of the deletion loop of _delete_current_log_files: whether entry p
\* is unlinked, the suffix being known (suffix # <<>>) or not.
DiscardMatches(p, prefix, suffix, start_ts) ==
    /\ p.kind = "file"
    /\ IF suffix # <<>>
       THEN \/ StartsWith(p.name, prefix \o suffix)
            \/ StartsWith(p.name, <<"_">> \o prefix \o suffix \o <<"_">>)
       ELSE /\ \/ StartsWith(p.name, prefix)
               \/ StartsWith(p.name, <<"_">> \o prefix)
            /\ ~(p.mtime + Tolerance < start_ts)

\* The entries _delete_current_log_files tries to unlink.
DiscardSet(fs, ds, folder, prefix, start_ts, order) ==
    IF folder = None \/ prefix = NoPrefix \/ start_ts = NoStart \/ folder \notin ds
    THEN {}
    ELSE {p \in FilesIn(fs, folder) :
            DiscardMatches(p, prefix,
                           ResolveCurrentLogSuffix(fs, ds, folder, prefix, start_ts, order),
                           start_ts)}

\* A guard of _on_discard_click that forgets the handle.
DiscardRefused_m(h, rec) == ~rec

\* `if self.canoe is None or not self.is_recording` in _on_discard_click
DiscardRefused(h, rec) == ~h \/ ~rec

\* The status _on_discard_click ends with.
DiscardStatus(nfailed, ndeleted, removed) ==
    IF nfailed > 0 THEN Status("Discarded with delete errors", "warning")
    ELSE IF ndeleted > 0
    THEN Status(IF removed THEN "Discarded files and removed empty folder"
                ELSE "Discarded files", "success")
    ELSE Status("No files found to discard", "warning")

\* The Discard button is clicked (the button is enabled): _on_discard_click.
\* failed: the entries whose unlink raises; rmOk: rmdir of the emptied folder
\* succeeds.
OnDiscardClick ==
    /\ btn_discard = "normal"
    /\ \/ /\ DiscardRefused(canoe, is_recording)
          /\ last' = Did("discard", "nothing", <<>>,
                         Status("No active recording to discard", "warning"))
          /\ UNCHANGED <<progVars, runVars, timerVars, engVars, fsVars, clock, hist>>
       \/ \* Measurement.Stop() raises
          /\ ~DiscardRefused(canoe, is_recording)
          /\ last' = Did("discard", "stop failed", <<"stop">>,
                         Status("Discard failed to stop measurement", "danger"))
          /\ UNCHANGED <<progVars, runVars, timerVars, engVars, fsVars, clock, hist>>
       \/ /\ ~DiscardRefused(canoe, is_recording)
          /\ ~engBroken
          /\ engRunning' = FALSE
          /\ LET folder == current_log_folder
                 prefix == current_prefix
                 start_ts == record_start_wallclock
                 noRun == folder = None \/ prefix = NoPrefix \/ start_ts = NoStart
             IN \E order \in Orders(ScanKept(files, folder, prefix, start_ts)) :
                  LET matching == DiscardSet(files, dirs, folder, prefix, start_ts, order)
                  IN \E failed \in SUBSET matching, rmOk \in BOOLEAN :
                       LET left == files \ (matching \ failed)
                           empties == ~noRun /\ folder \in dirs /\ FilesIn(left, folder) = {}
                           nfailed == Cardinality(failed)
                                      + (IF ~noRun /\ folder \notin dirs THEN 1 ELSE 0)
                           ndeleted == Cardinality(matching \ failed)
                       IN /\ (~empties => rmOk)
                          /\ files' = left
                          /\ dirs' = IF empties /\ rmOk THEN dirs \ {folder} ELSE dirs
                          /\ last' = Did("discard",
                                         IF nfailed > 0 THEN "delete errors" ELSE "discarded",
                                         <<"stop", "delete", "reset">>,
                                         DiscardStatus(nfailed, ndeleted, empties /\ rmOk))
          /\ ResetCurrentSessionState
          /\ hist' = Hist0
          /\ UNCHANGED <<progVars, timerVars, engBroken, clock>>
    /\ UNCHANGED pureVars

\* ---------------------------------------------------------------- save comment
\* What the comment box can hold: nothing, white space only, or a text with
\* white space before it.
CommentTexts == {"", "  ", " note"}

\* A save that takes the content of the comment box as it is.
StripComment_m(text) == text

\* comment_box.get("1.0", "end").strip()
StripComment(text) == IF text \in {"", "  "} THEN "" ELSE "note"

\* _format_measurement_timestamp: HH:MM:SS.mmm of the elapsed seconds.
DigitStr == <<"0", "1", "2", "3", "4", "5", "6", "7", "8", "9">>
Digits2(n) == <<DigitStr[(n \div 10) + 1], DigitStr[(n % 10) + 1]>>
FormatSeconds(sec) == <<Digits2(sec \div 3600), ":", Digits2((sec \div 60) % 60), ":",
                        Digits2(sec % 60), ".", "000">>

\* A line that lacks its newline.
CommentLine_m(ts, text) == <<"[", ts, "] ", text>>

\* A line of the comment file: f"[{ts}] {comment}\n"
CommentLine(ts, text) == <<"[", ts, "] ", text, "\n">>

\* The number of comment lines in content c.
RECURSIVE CountComments(_)
CountComments(c) ==
    IF c = <<>> THEN 0
    ELSE (IF Head(c) = "header" THEN 0 ELSE 1) + CountComments(Tail(c))

\* Save comment (the button, or Enter in the comment box, which is bound
\* whatever the state of the button): _on_save_comment_click. The elapsed time
\* is the engine's (Measurement.GetTime) or, when that raises, the wall clock
\* since Start; both are whole seconds here.
OnSaveCommentClick ==
    \/ /\ (~canoe \/ ~is_recording)
       /\ \E text \in CommentTexts :
             last' = Did("save", "not recording", <<text>>,
                         Status("Cannot save comment (not recording)", "danger"))
       /\ UNCHANGED <<progVars, runVars, timerVars, engVars, fsVars, clock, hist, pureVars>>
    \/ /\ canoe /\ is_recording
       /\ \E text \in CommentTexts :
             /\ StripComment(text) = ""
             /\ last' = Did("save", "empty", <<text>>,
                            Status("Empty comment, not saved", "warning"))
       /\ UNCHANGED <<progVars, runVars, timerVars, engVars, fsVars, clock, hist, pureVars>>
    \/ /\ canoe /\ is_recording
       /\ comment_file_path = NoPath
       /\ \E text \in CommentTexts :
             /\ StripComment(text) # ""
             /\ last' = Did("save", "unresolved", <<text>>,
                            Status("Comment file not yet resolved", "warning"))
       /\ UNCHANGED <<progVars, runVars, timerVars, engVars, fsVars, clock, hist, pureVars>>
    \/ /\ canoe /\ is_recording
       /\ comment_file_path # NoPath
       /\ \E text \in CommentTexts, writeOk \in BOOLEAN :
             LET old == IF Exists(files, comment_file_path)
                        THEN FileAt(files, comment_file_path).content ELSE <<>>
                 sec == IF record_start_wallclock = NoStart THEN 0
                        ELSE IF clock > record_start_wallclock
                        THEN clock - record_start_wallclock ELSE 0
                 line == CommentLine(FormatSeconds(sec), StripComment(text))
             IN /\ StripComment(text) # ""
                /\ CountComments(old) < MaxComments
                /\ IF writeOk
                   THEN /\ files' = Without(files, comment_file_path)
                                    \cup {File(comment_file_path.dir, comment_file_path.name,
                                               clock, Append(old, line))}
                        /\ dirs' = dirs \cup {comment_file_path.dir}
                        /\ last' = Did("save", "saved", <<text>>,
                                       Status("Comment saved", "success"))
                   ELSE /\ UNCHANGED <<files, dirs>>
                        /\ last' = Did("save", "write failed", <<text>>,
                                       Status("Could not save comment", "danger"))
       /\ UNCHANGED <<progVars, runVars, timerVars, engVars, clock, hist, pureVars>>

\* ------------------------------------------------------------- environment
\* The engine stops measuring by itself (end of a replay, an error, the
\* operator using the engine's own window).
EngineStopsItself ==
    /\ ~engBroken /\ engRunning
    /\ engRunning' = FALSE
    /\ last' = Did("engine", "stops itself", <<>>, NoStatus)
    /\ UNCHANGED <<progVars, runVars, timerVars, engBroken,
                   fsVars, clock, hist>>
    /\ UNCHANGED pureVars

\* A measurement is started in the engine's own window.
EngineStartsItself ==
    /\ ~engBroken /\ ~engRunning
    /\ engRunning' = TRUE
    /\ last' = Did("engine", "starts itself", <<>>, NoStatus)
    /\ UNCHANGED <<progVars, runVars, timerVars, engBroken,
                   fsVars, clock, hist>>
    /\ UNCHANGED pureVars

\* The engine process ends: every later call on the handle raises.
EngineDies ==
    /\ ~engBroken
    /\ engBroken' = TRUE
    /\ engRunning' = FALSE
    /\ last' = Did("engine", "dies", <<>>, NoStatus)
    /\ UNCHANGED <<progVars, runVars, timerVars,
                   fsVars, clock, hist>>
    /\ UNCHANGED pureVars

\* The outputs of the measuring engine in the run folder: that of the logging
\* sink and that of the video sink, as Start points them.
EngineOutputs == {MainName(EngineToken), VideoName(EngineToken)}

\* The measuring engine creates or extends its output files in the run folder.
EngineWrites ==
    /\ ~engBroken /\ engRunning
    /\ LogFolder \in dirs
    /\ files' = {f \in files : ~(f.dir = LogFolder /\ f.name \in EngineOutputs)}
                 \cup {File(LogFolder, n, clock, <<>>) : n \in EngineOutputs}
    /\ files' # files
    /\ last' = Did("engine", "writes", <<>>, NoStatus)
    /\ UNCHANGED <<progVars, runVars, timerVars, engVars, dirs, clock, hist>>
    /\ UNCHANGED pureVars

\* A second of wall clock passes.
Tick ==
    /\ clock < MaxClock
    /\ clock' = clock + 1
    /\ last' = Did("clock", "tick", <<>>, NoStatus)
    /\ UNCHANGED <<progVars, runVars, timerVars, engVars, fsVars, hist>>
    /\ UNCHANGED pureVars

\* ------------------------------------------------------------ specification
\* The handlers behind the connection and recording controls and the timers.
Handlers ==
    \/ SyncTick
    \/ ConnectSelectedCanoe
    \/ OnStartStopClick
    \/ TryResolveCommentFilenamePoll
    \/ OnDiscardClick

\* What the engine does by itself.
Engine ==
    \/ EngineStopsItself
    \/ EngineStartsItself
    \/ EngineDies
    \/ EngineWrites

\* The program with an operator who leaves the comment box alone.
Next == Handlers \/ Engine \/ Tick

Spec == Init /\ [][Next]_vars

\* The program whose event loop keeps running the resolver poll callbacks that
\* are scheduled, while the wall clock advances.
SpecPolling ==
    /\ Init
    /\ [][Next]_vars
    /\ WF_vars(TryResolveCommentFilenamePoll)
    /\ WF_vars(Tick)

\* The program with an operator who also saves comments, within one second.
NextComments == Handlers \/ OnSaveCommentClick \/ Engine

SpecComments == Init /\ [][NextComments]_vars

\* ------------------------------------------------- a run in a used folder
\* The wall clock at the Start of the run: late enough for older entries.
FolderStart == Tolerance + 1

\* The modification times of the entries found in the folder: older than the
\* tolerance allows, on its boundary, and after Start.
FolderMtimes == {FolderStart - Tolerance - 1, FolderStart - Tolerance, FolderStart + 1}

\* The entries a folder of this prefix can hold from earlier sessions and from
\* the engine: logs of tokens a, ab and of the empty token, a log with an
\* upper-case video extension, videos, a comment file, a sub-folder, and a log
\* of another prefix.
FolderNames ==
    {<<MainName(<<"a">>), "file">>, <<MainName(<<"a", "b">>), "file">>,
     <<MainName(<<>>), "file">>, <<BasePrefix \o <<"_", "a", ".AVI">>, "file">>,
     <<VideoName(<<"a">>), "file">>, <<VideoName(<<"a", "b">>), "file">>,
     <<BasePrefix \o <<"_", "a", ".txt">>, "file">>,
     <<BasePrefix \o <<"_", "a", "b">>, "dir">>,
     <<<<"Q", "_", "a", ".blf">>, "file">>}

FolderEntries ==
    {[dir |-> LogFolder, name |-> n[1], kind |-> n[2], mtime |-> m, content |-> <<>>] :
        n \in FolderNames, m \in FolderMtimes}

\* The contents a folder can have: at most MaxEntries entries, no two of
\* the same name.
FolderContents ==
    {S \in SUBSET FolderEntries :
        /\ Cardinality(S) <= MaxEntries
        /\ \A e, f \in S : e.name = f.name => e = f}

\* The state after Start has returned and the next sync tick has run, the
\* run folder holding entries of earlier sessions and of the engine.
InitFolder ==
    /\ canoe = TRUE
    /\ is_recording = TRUE
    /\ last_meas_running = "True"
    /\ current_log_folder = LogFolder
    /\ current_prefix = BasePrefix \o <<"_">>
    /\ record_start_wallclock = FolderStart
    /\ comment_file_path = [dir |-> LogFolder,
                            name |-> BasePrefix \o <<"_", TsAtom(FolderStart)>> \o <<".txt">>]
    /\ comment_metadata_written = TRUE
    /\ resolve_tries = 0
    /\ btn_record = [text |-> "Stop recording", state |-> "normal"]
    /\ btn_discard = "normal"
    /\ btn_save_comment = "normal"
    /\ pendingSync = "one"
    /\ pendingPolls = 1
    /\ engRunning = TRUE
    /\ engBroken = FALSE
    /\ dirs = {LogFolder}
    /\ \E S \in FolderContents :
          files = S \cup {File(LogFolder, comment_file_path.name, FolderStart, <<"header">>)}
    /\ clock = FolderStart
    /\ last = Did("sync", "True", <<"handle", "idle">>,
                  Status("Measurement running", "success"))
    /\ hist = Hist0
    /\ PureIdle

\* The resolver polls and the operator may discard.
NextFolder == TryResolveCommentFilenamePoll \/ OnDiscardClick

SpecFolder == InitFolder /\ [][NextFolder]_vars

\* ------------------------------------------------------------------ naming
\* Strings of the naming form are sequences of characters.
\* The longest text of a field of the naming form.
MaxFieldLen == 2

\* The characters of the fields: a letter and a space.
FieldChars == {"x", " "}

\* The texts a field can hold.
FieldTexts == UNION {[1..n -> FieldChars] : n \in 0..MaxFieldLen}

\* str.strip(): the text without its leading and trailing spaces.
Strip(s) ==
    LET keep == {i \in 1..Len(s) : s[i] # " "}
    IN  IF keep = {} THEN <<>>
        ELSE LET lo == CHOOSE i \in keep : \A j \in keep : i <= j
                 hi == CHOOSE i \in keep : \A j \in keep : j <= i
             IN  SubSeq(s, lo, hi)

\* value.replace(" ", "_")
Sanitize(s) == [i \in 1..Len(s) |-> IF s[i] = " " THEN "_" ELSE s[i]]

\* "_".join(parts) without the filter `if p`.
JoinNonEmpty_m(parts) ==
    IF Len(parts) = 0 THEN <<>>
    ELSE IF Len(parts) = 1 THEN parts[1]
    ELSE IF Len(parts) = 2 THEN parts[1] \o <<"_">> \o parts[2]
    ELSE parts[1] \o <<"_">> \o parts[2] \o <<"_">> \o parts[3]

\* "_".join([p for p in parts if p]), for at most three parts.
JoinNonEmpty(parts) ==
    LET kept == SelectSeq(parts, LAMBDA q : q # <<>>)
    IN  IF Len(kept) = 0 THEN <<>>
        ELSE IF Len(kept) = 1 THEN kept[1]
        ELSE IF Len(kept) = 2 THEN kept[1] \o <<"_">> \o kept[2]
        ELSE kept[1] \o <<"_">> \o kept[2] \o <<"_">> \o kept[3]

\* _vehicle_number_tag: "Veh" and the fleet number VEHICLE_NUMBERS has for the
\* stripped, upper-cased id; empty when it has none (number = <<>>).
VehicleNumberTag(number) == IF number = <<>> THEN <<>> ELSE <<"Veh">> \o number

\* _vehicle_descriptor: the stripped catalog entry of the stripped id.
VehicleDescriptor(f) == Strip(f.descriptor)

\* _vehicle_model_tag for form f.
VehicleModelTag(f, include_id_fallback) ==
    LET vehicle_id == Strip(f.vehicle_id)
        desc == VehicleDescriptor(f)
        number_tag == VehicleNumberTag(f.number)
        p1 == IF desc # <<>> THEN <<Sanitize(desc)>> ELSE <<>>
        p2 == IF number_tag # <<>> THEN <<number_tag>>
              ELSE IF include_id_fallback /\ vehicle_id # <<>>
              THEN <<Sanitize(vehicle_id)>> ELSE <<>>
    IN  JoinNonEmpty(p1 \o p2)

\* _vehicle_prefix_component
VehiclePrefixComponent(f) == VehicleModelTag(f, TRUE)

\* base_prefix of the Start branch for form f: rel, then veh and safe_tag when
\* they are not empty, joined with "_".
NamePrefix(f) ==
    LET safe_tag == Sanitize(f.log_tag)
        rel == Sanitize(f.sw_rel)
        veh == VehiclePrefixComponent(f)
        parts == <<rel>> \o (IF veh # <<>> THEN <<veh>> ELSE <<>>)
                         \o (IF safe_tag # <<>> THEN <<safe_tag>> ELSE <<>>)
    IN  JoinNonEmpty(parts)

\* The fleet numbers the table can have for an id: none, or one.
FleetNumbers == {<<>>, <<"6">>}

\* The forms: any texts in the release, vehicle id and tag fields; for a
\* vehicle id that is not blank, any catalog entry and fleet number.
Forms ==
    {f \in [sw_rel : FieldTexts, vehicle_id : FieldTexts, log_tag : FieldTexts,
            descriptor : FieldTexts, number : FleetNumbers] :
        Strip(f.vehicle_id) = <<>> => (f.descriptor = <<>> /\ f.number = <<>>)}

\* The window with some form filled in.
InitNaming ==
    /\ WindowInit
    /\ form \in Forms
    /\ naming = NoNaming
    /\ scan = <<>> /\ installs = <<>> /\ conn = NoConn /\ store = NoStore

\* The naming part of the Start branch: veh and base_prefix are computed.
ComputeNaming ==
    /\ last.h # "naming"
    /\ naming' = [veh |-> VehiclePrefixComponent(form), base_prefix |-> NamePrefix(form)]
    /\ last' = Did("naming", "", <<>>, NoStatus)
    /\ UNCHANGED <<progVars, runVars, timerVars, engVars, fsVars, clock, hist,
                   form, scan, installs, conn, store>>

SpecNaming == InitNaming /\ [][ComputeNaming]_vars

\* --------------------------------------------------------------- discovery
\* Model of discover_canoe_installations (src/src/services/canoe.py). A path
\* is a sequence of characters; a label is a sequence of character codes, so
\* that labels can be compared as Python compares strings; a version hint is
\* a tuple of integers.
\* The most installations one scan of the roots finds.
MaxScan == 3

\* str.lower() on a character of a path.
LowerChar(c) ==
    IF c = "A" THEN "a" ELSE IF c = "B" THEN "b" ELSE IF c = "C" THEN "c"
    ELSE IF c = "E" THEN "e" ELSE c

\* Path(...).resolve() on a character: a forward slash is a separator.
ResolveChar(c) == IF c = "/" THEN "\\" ELSE c

\* A key that keeps the case of the path.
NormalizePathKey_m(path) == [i \in 1..Len(path) |-> ResolveChar(path[i])]

\* _normalize_path_key: str(Path(value).resolve(strict=False)).lower()
NormalizePathKey(path) == [i \in 1..Len(path) |-> LowerChar(ResolveChar(path[i]))]

\* str.lower() on a character code: A..Z are 65..90, a..z are 97..122.
LowerCode(n) == IF n >= 65 /\ n <= 90 THEN n + 32 ELSE n

\* inst.label.lower()
LabelLower(label) == [i \in 1..Len(label) |-> LowerCode(label[i])]

\* a < b for two sequences of integers, as Python compares tuples and strings.
LexLess(a, b) ==
    \E k \in 1..(Len(b)) :
        /\ k <= Len(a) + 1
        /\ \A i \in 1..(k - 1) : a[i] = b[i]
        /\ (k = Len(a) + 1 \/ a[k] < b[k])

\* The first loop of discover_canoe_installations over the installations
\* found, in scan order: one whose key has been seen is skipped.
RECURSIVE DedupeByExec(_, _)
DedupeByExec(found, seen_execs) ==
    IF found = <<>> THEN <<>>
    ELSE LET inst == Head(found)
             key == NormalizePathKey(inst.exec_path)
         IN  IF key \in seen_execs THEN DedupeByExec(Tail(found), seen_execs)
             ELSE <<inst>> \o DedupeByExec(Tail(found), seen_execs \cup {key})

\* key=lambda inst: inst.label.lower()
LabelBefore(a, b) == LexLess(LabelLower(a.label), LabelLower(b.label))

\* A sort on the version hint without reverse=True.
HintBefore_m(a, b) == LexLess(a.version_hint, b.version_hint)

\* key=lambda inst: inst.version_hint, reverse=True: the greater hint first,
\* equal hints in the order they had.
HintBefore(a, b) == LexLess(b.version_hint, a.version_hint)

\* Whether a sorts strictly before b in the sort on key ("label" or "hint").
SortsBefore(key, a, b) == IF key = "label" THEN LabelBefore(a, b) ELSE HintBefore(a, b)

\* list.sort is stable: x is put before the first entry that sorts after it.
RECURSIVE InsertStable(_, _, _)
InsertStable(sorted, x, key) ==
    IF sorted = <<>> THEN <<x>>
    ELSE IF SortsBefore(key, x, Head(sorted)) THEN <<x>> \o sorted
    ELSE <<Head(sorted)>> \o InsertStable(Tail(sorted), x, key)

\* list.sort(key=...)
RECURSIVE SortStable(_, _)
SortStable(list, key) ==
    IF list = <<>> THEN <<>>
    ELSE InsertStable(SortStable(SubSeq(list, 1, Len(list) - 1), key),
                      list[Len(list)], key)

\* discover_canoe_installations on the installations found in scan order.
DiscoverCanoeInstallations(found) ==
    SortStable(SortStable(DedupeByExec(found, {}), "label"), "hint")

\* The executables a scan can meet: two spellings of one file and two other
\* files.
ScanPaths == {<<"A", "\\", "e">>, <<"a", "/", "E">>, <<"B", "\\", "e">>, <<"C", "\\", "e">>}

\* The labels: "A", "a" and "B".
ScanLabels == {<<65>>, <<97>>, <<66>>}

\* The version hints: unknown, 5.1.0 and 5.2.0.
ScanHints == {<<>>, <<5, 1, 0>>, <<5, 2, 0>>}

ScanInstallations == [label : ScanLabels, exec_path : ScanPaths, version_hint : ScanHints]

\* The window before the installations are looked for, and what the scan of
\* the roots will find, in scan order.
InitDiscover ==
    /\ WindowInit
    /\ \E n \in 0..MaxScan : scan \in [1..n -> ScanInstallations]
    /\ installs = <<>>
    /\ form = NoForm /\ naming = NoNaming /\ conn = NoConn /\ store = NoStore

\* _refresh_canoe_installations calls discover_canoe_installations.
RefreshCanoeInstallations ==
    /\ last.h # "discover"
    /\ installs' = DiscoverCanoeInstallations(scan)
    /\ last' = Did("discover", "", <<>>, NoStatus)
    /\ UNCHANGED <<progVars, runVars, timerVars, engVars, fsVars, clock, hist,
                   form, naming, scan, conn, store>>

SpecDiscover == InitDiscover /\ [][RefreshCanoeInstallations]_vars

\* ------------------------------------------------------------------ connect
\* _connect_selected_canoe with its helpers of services/canoe.py. The poll
\* loops run until a deadline (15 s and 20 s, one round per 0.5 s); here both
\* deadlines leave MaxRounds rounds.
MaxRounds == 2

\* prog_id_candidates: the two ids that are always in the list.
ProgIdCandidates == <<"CANoe.Application", "CANoe.Application.1">>

\* The majors an installation can expect: None or 5.
ExpectedMajors == {<<>>, <<5>>}

\* The answers of one COM server.
Answers == {Raises, Handle(TRUE, <<5, 0>>), Handle(TRUE, <<6, 0>>), Handle(FALSE, <<>>)}

\* The answers per poll round and candidate.
AnswerTables == [1..MaxRounds -> [1..Len(ProgIdCandidates) -> Answers]]

\* _major_from_hint: the first number, None (<<>>) for an empty hint.
MajorFromHint(hint) == IF hint = <<>> THEN <<>> ELSE <<Head(hint)>>

\* _extract_major_from_text
ExtractMajorFromText(text) == MajorFromHint(text)

\* matches_installation with the try/except dropped: an unreadable Version
\* is accepted.
MatchesInstallation_m(expected_major, canoe_obj) ==
    IF expected_major = <<>> THEN TRUE
    ELSE IF ~canoe_obj.readable THEN TRUE
    ELSE ExtractMajorFromText(canoe_obj.Version) = expected_major

\* matches_installation, the predicate of _connect_selected_canoe.
MatchesInstallation(expected_major, canoe_obj) ==
    IF expected_major = <<>> THEN TRUE
    ELSE IF ~canoe_obj.readable THEN FALSE
    ELSE ExtractMajorFromText(canoe_obj.Version) = expected_major

\* _get_active_canoe: an exception gives None.
GetActiveCanoe(answer) == IF answer.kind = "raise" THEN NoHandle ELSE answer

\* One pass of the for loop of _attach_running_canoe over the answers of the
\* candidates, in list order.
RECURSIVE AttachRound(_, _)
AttachRound(answers, expected_major) ==
    IF answers = <<>> THEN NoHandle
    ELSE LET candidate == GetActiveCanoe(Head(answers))
         IN  IF candidate # NoHandle /\ MatchesInstallation(expected_major, candidate)
             THEN candidate
             ELSE AttachRound(Tail(answers), expected_major)

\* _attach_running_canoe: one round after the other until the deadline.
RECURSIVE AttachRunningCanoe(_, _)
AttachRunningCanoe(rounds, expected_major) ==
    IF rounds = <<>> THEN NoHandle
    ELSE LET candidate == AttachRound(Head(rounds), expected_major)
         IN  IF candidate # NoHandle THEN candidate
             ELSE AttachRunningCanoe(Tail(rounds), expected_major)

\* One pass of the for loop of _spawn_canoe_instance: connect_canoe raising
\* means continue.
RECURSIVE SpawnRound(_, _)
SpawnRound(answers, expected_major) ==
    IF answers = <<>> THEN NoHandle
    ELSE LET candidate == Head(answers)
         IN  IF candidate.kind = "raise"
             THEN SpawnRound(Tail(answers), expected_major)
             ELSE IF MatchesInstallation(expected_major, candidate)
             THEN candidate
             ELSE SpawnRound(Tail(answers), expected_major)

RECURSIVE SpawnRounds(_, _)
SpawnRounds(rounds, expected_major) ==
    IF rounds = <<>> THEN NoHandle
    ELSE LET candidate == SpawnRound(Head(rounds), expected_major)
         IN  IF candidate # NoHandle THEN candidate
             ELSE SpawnRounds(Tail(rounds), expected_major)

\* _spawn_canoe_instance
SpawnCanoeInstance(prog_ids, rounds, expected_major) ==
    IF prog_ids = <<>> THEN NoHandle ELSE SpawnRounds(rounds, expected_major)

\* The end of _connect_selected_canoe when self.canoe is None.
CannotConnect ==
    /\ last' = Did("connect", "failed", <<"attach", "spawn">>,
                   Status("Cannot connect to the selected CANoe version", "danger"))
    /\ UNCHANGED <<progVars, timerVars, engVars>>

\* The end of _connect_selected_canoe when a handle was obtained:
\* last_meas_running = None and a direct _sync_measurement_ui().
ConnectedTo(calls) ==
    /\ engBroken' = FALSE
    /\ engRunning' = (IF engBroken THEN FALSE ELSE engRunning)
    /\ LET r == ReadRunning(TRUE, FALSE, ~engBroken /\ engRunning)
       IN /\ SyncMeasurementUi(TRUE, None, r)
          /\ pendingSync' = IF SyncRearms(r) THEN OneMore(pendingSync) ELSE pendingSync
          /\ last' = Did("connect", "connected", calls \o <<"sync">>, SyncStatus(TRUE, None, r))
    /\ UNCHANGED <<resolve_tries, pendingPolls>>

\* _connect_selected_canoe for a selected, running installation, with the
\* answers of the COM servers as its input: attach first, spawn only when
\* attach gave None.
ConnectViaCom ==
    /\ ~canoe
    /\ last.h # "connect"
    /\ \E expected_major \in ExpectedMajors, att \in AnswerTables :
         LET attached == AttachRunningCanoe(att, expected_major)
         IN  \/ /\ attached # NoHandle
                /\ conn' = [expected |-> expected_major, attach |-> att,
                            spawn |-> <<>>, handle |-> attached]
                /\ ConnectedTo(<<"attach">>)
             \/ /\ attached = NoHandle
                /\ \E sp \in AnswerTables :
                     LET spawned == SpawnCanoeInstance(ProgIdCandidates, sp, expected_major)
                     IN  /\ conn' = [expected |-> expected_major, attach |-> att,
                                     spawn |-> sp, handle |-> spawned]
                         /\ IF spawned = NoHandle
                            THEN CannotConnect
                            ELSE ConnectedTo(<<"attach", "spawn">>)
    /\ UNCHANGED <<runVars, fsVars, clock, hist, form, naming, scan, installs, store>>

InitConnect == WindowInit /\ PureIdle

SpecConnect == InitConnect /\ [][ConnectViaCom]_vars

\* ----------------------------------------------------------------- settings
\* AppState.save and AppState.load (src/src/core/state.py). The state file is
\* a JSON object, kept as its members in file order with each value as the
\* characters of its string literal between the quotes, or it is missing, or
\* it holds text that is no JSON (garbage), or JSON that is no object (a list).
\* At most this many unrecognized members are added to a state file.
MaxUnknownKeys == 1

\* The texts of a field: nothing, a word, and a text with a backslash and a
\* double quote, which JSON writes escaped.
SettingTexts == {<<>>, <<"a">>, <<"\\", "\"">>}

\* The states that can be saved.
AppStates == [Fields -> SettingTexts]

\* Members a state file can hold that AppState does not know.
UnknownMembers == {<<"theme", <<"a">>>>, <<"geometry", <<"\\", "\\">>>>}

\* json.dump of a string, between the quotes: backslash and double quote are
\* escaped with a backslash.
RECURSIVE JsonEscape(_)
JsonEscape(t) ==
    IF t = <<>> THEN <<>>
    ELSE (IF Head(t) \in {"\\", "\""} THEN <<"\\", Head(t)>> ELSE <<Head(t)>>)
         \o JsonEscape(Tail(t))

\* json.loads of a string literal, between the quotes: the character after a
\* backslash is taken as it is.
RECURSIVE JsonUnescape(_)
JsonUnescape(t) ==
    IF t = <<>> THEN <<>>
    ELSE IF Head(t) = "\\" /\ Len(t) >= 2
    THEN <<t[2]>> \o JsonUnescape(Tail(Tail(t)))
    ELSE <<Head(t)>> \o JsonUnescape(Tail(t))

\* asdict(state) written by json.dump: the fields in dataclass order.
JsonDump(state) ==
    [kind |-> "object",
     pairs |-> [i \in 1..Len(FieldOrder) |->
                  <<FieldOrder[i], JsonEscape(state[FieldOrder[i]])>>]]

\* json.loads of an object: a dict in which the last member of a key wins.
JsonLoads(file) ==
    LET ps == file.pairs
        keys == {ps[i][1] : i \in 1..Len(ps)}
        lastOf(k) == CHOOSE i \in 1..Len(ps) :
                        ps[i][1] = k /\ \A j \in 1..Len(ps) : ps[j][1] = k => j <= i
    IN  [k \in keys |-> JsonUnescape(ps[lastOf(k)][2])]

\* A load that passes every member of the file to AppState.
Known_m(raw) == raw

\* known = {k: v for k, v in raw.items() if k in AppState().__dict__.keys()}
Known(raw) == [k \in (DOMAIN raw) \cap Fields |-> raw[k]]

\* AppState(**known): a TypeError for a keyword that is no field, caught by
\* the `except Exception` of load, which returns AppState(); the defaults for
\* the fields that are not given.
AppStateOf(known) ==
    IF ~((DOMAIN known) \subseteq Fields) THEN DefaultState
    ELSE [k \in Fields |-> IF k \in DOMAIN known THEN known[k] ELSE DefaultState[k]]

\* AppState.load
Load(file) ==
    IF file.kind = "missing" THEN DefaultState
    ELSE IF file.kind = "garbage" THEN DefaultState
    ELSE IF file.kind # "object" THEN DefaultState
    ELSE AppStateOf(Known(JsonLoads(file)))

\* The unrecognized members of a state file.
UnknownIn(file) == {i \in 1..Len(file.pairs) : file.pairs[i][1] \notin Fields}

\* The window with some session metadata in its fields.
InitSettings ==
    /\ WindowInit
    /\ form = NoForm /\ naming = NoNaming
    /\ scan = <<>> /\ installs = <<>> /\ conn = NoConn
    /\ \E st \in AppStates : store = [NoStore EXCEPT !.state = st]

\* _persist_state_snapshot: save_state writes the state file anew.
SaveState ==
    /\ store' = [store EXCEPT !.file = JsonDump(store.state)]
    /\ last' = Did("save_state", "", <<>>, NoStatus)
    /\ UNCHANGED <<progVars, runVars, timerVars, engVars, fsVars, clock, hist,
                   form, naming, scan, installs, conn>>

\* Another version of the program, or an editor, adds a member that this
\* AppState does not know, before or after the members of the file.
AddUnknownMember ==
    /\ store.file.kind = "object"
    /\ Cardinality(UnknownIn(store.file)) < MaxUnknownKeys
    /\ \E m \in UnknownMembers, front \in BOOLEAN :
          store' = [store EXCEPT !.file.pairs =
                      IF front THEN <<<<m[1], JsonEscape(m[2])>>>> \o @
                      ELSE Append(@, <<m[1], JsonEscape(m[2])>>)]
    /\ last' = Did("edit", "unknown member", <<>>, NoStatus)
    /\ UNCHANGED <<progVars, runVars, timerVars, engVars, fsVars, clock, hist,
                   form, naming, scan, installs, conn>>

\* The state file is deleted, truncated to text that json.loads rejects, or
\* replaced by JSON that is no object.
DamageFile ==
    /\ \E k \in {"missing", "garbage", "list"} :
          /\ store.file.kind # k
          /\ store' = [store EXCEPT !.file = [kind |-> k, pairs |-> <<>>]]
          /\ last' = Did("edit", k, <<>>, NoStatus)
    /\ UNCHANGED <<progVars, runVars, timerVars, engVars, fsVars, clock, hist,
                   form, naming, scan, installs, conn>>

\* load_state at the start of the program.
LoadState ==
    /\ store' = [store EXCEPT !.loaded = Load(store.file)]
    /\ last' = Did("load_state", store.file.kind, <<>>, NoStatus)
    /\ UNCHANGED <<progVars, runVars, timerVars, engVars, fsVars, clock, hist,
                   form, naming, scan, installs, conn>>

NextSettings == SaveState \/ AddUnknownMember \/ DamageFile \/ LoadState

SpecSettings == InitSettings /\ [][NextSettings]_vars

\* ------------------------------------------------- a run and the metadata
\* The operator changes the session metadata in the window. What the release
\* and vehicle menus can be set to, and what the tag field can hold.
MetadataTexts == {<<>>, <<"x">>}

\* _gather_state: the AppState of the fields of the window.
GatherState(f) ==
    [DefaultState EXCEPT !["tag"] = f.log_tag, !["sw_rel"] = f.sw_rel,
                         !["vehicle_id"] = f.vehicle_id]

\* _persist_state_snapshot for the window whose fields are f.
PersistStateSnapshot(f) ==
    store' = [store EXCEPT !.state = GatherState(f), !.file = JsonDump(GatherState(f))]

\* A release change that points the running run at the new name.
OnSwReleaseChange_m ==
    /\ \E rel \in MetadataTexts :
          /\ rel # form.sw_rel
          /\ form' = [form EXCEPT !.sw_rel = rel]
    /\ PersistStateSnapshot(form')
    /\ current_prefix' = IF current_prefix = NoPrefix THEN NoPrefix
                         ELSE form'.sw_rel \o current_prefix
    /\ last' = Did("metadata", "release", <<>>, NoStatus)
    /\ UNCHANGED <<progVars, comment_file_path, current_log_folder, record_start_wallclock,
                   comment_metadata_written, timerVars, engVars, fsVars, clock, hist,
                   naming, scan, installs, conn>>

\* _on_sw_release_change: another release is chosen in the menus; the
\* snapshot is persisted (the window titles are not modelled).
OnSwReleaseChange ==
    /\ \E rel \in MetadataTexts :
          /\ rel # form.sw_rel
          /\ form' = [form EXCEPT !.sw_rel = rel]
    /\ PersistStateSnapshot(form')
    /\ last' = Did("metadata", "release", <<>>, NoStatus)
    /\ UNCHANGED <<progVars, runVars, timerVars, engVars, fsVars, clock, hist,
                   naming, scan, installs, conn>>

\* _on_vehicle_dropdown_change: another vehicle is chosen; the snapshot is
\* persisted.
OnVehicleDropdownChange ==
    /\ \E vehicle_id \in MetadataTexts :
          /\ vehicle_id # form.vehicle_id
          /\ form' = [form EXCEPT !.vehicle_id = Strip(vehicle_id)]
    /\ PersistStateSnapshot(form')
    /\ last' = Did("metadata", "vehicle", <<>>, NoStatus)
    /\ UNCHANGED <<progVars, runVars, timerVars, engVars, fsVars, clock, hist,
                   naming, scan, installs, conn>>

\* The tag field is edited: the entry is bound to log_tag, no handler runs.
EditLogTag ==
    /\ \E tag \in MetadataTexts :
          /\ tag # form.log_tag
          /\ form' = [form EXCEPT !.log_tag = tag]
    /\ last' = Did("metadata", "tag", <<>>, NoStatus)
    /\ UNCHANGED <<progVars, runVars, timerVars, engVars, fsVars, clock, hist,
                   naming, scan, installs, conn, store>>

\* The window while is_recording is true: after Connect, a Start at wall
\* clock 0 and the sync tick that saw the measurement run (a Recording Run is
\* set, its poll is pending), or after Connect, a measurement started in the
\* engine's own window and the sync tick that saw it (no Recording Run).
InitRecording ==
    /\ canoe = TRUE
    /\ is_recording = TRUE
    /\ last_meas_running = "True"
    /\ resolve_tries = 0
    /\ btn_record = [text |-> "Stop recording", state |-> "normal"]
    /\ btn_discard = "normal"
    /\ btn_save_comment = "normal"
    /\ pendingSync = "one"
    /\ engRunning = TRUE
    /\ engBroken = FALSE
    /\ clock = 0
    /\ last = Did("sync", "True", <<"handle", "idle">>,
                  Status("Measurement running", "success"))
    /\ hist = Hist0
    /\ PureIdle
    /\ \/ /\ current_log_folder = LogFolder
          /\ current_prefix = BasePrefix \o <<"_">>
          /\ record_start_wallclock = 0
          /\ comment_file_path = [dir |-> LogFolder,
                                  name |-> BasePrefix \o <<"_", TsAtom(0)>> \o <<".txt">>]
          /\ comment_metadata_written = TRUE
          /\ pendingPolls = 1
          /\ dirs = {LogFolder}
          /\ files = {File(LogFolder, comment_file_path.name, 0, <<"header">>)}
       \/ /\ current_log_folder = None
          /\ current_prefix = NoPrefix
          /\ record_start_wallclock = NoStart
          /\ comment_file_path = NoPath
          /\ comment_metadata_written = FALSE
          /\ pendingPolls = 0
          /\ dirs = {}
          /\ files = {}

\* The timers, the engine and an operator who saves comments and changes the
\* session metadata but leaves Start/Stop, Discard and Connect alone.
NextRecording ==
    \/ SyncTick
    \/ TryResolveCommentFilenamePoll
    \/ OnSaveCommentClick
    \/ OnSwReleaseChange
    \/ OnVehicleDropdownChange
    \/ EditLogTag
    \/ EngineWrites
    \/ EngineStopsItself
    \/ EngineDies
    \/ Tick

SpecRecording == InitRecording /\ [][NextRecording]_vars

\* ------------------------------------------- after the engine stopped a run
\* The window after Connect, a Start at wall clock 0, the sync callback that
\* saw the measurement run, the engine stopping the measurement by itself and
\* the sync callback that saw it stopped: the buttons are back to "Start
\* recording" and the Recording Run is still set. Either the engine wrote no
\* output and the resolver poll of the run is still pending, or it wrote its
\* outputs and the resolver renamed the comment file after them.
InitSelfStopped ==
    /\ canoe = TRUE
    /\ is_recording = FALSE
    /\ last_meas_running = "False"
    /\ resolve_tries = 0
    /\ btn_record = [text |-> "Start recording", state |-> "normal"]
    /\ btn_discard = "disabled"
    /\ btn_save_comment = "disabled"
    /\ pendingSync = "several"
    /\ engRunning = FALSE
    /\ engBroken = FALSE
    /\ clock = 0
    /\ last = Did("sync", "False", <<"handle", "recording">>,
                  Status("Measurement stopped", "info"))
    /\ current_log_folder = LogFolder
    /\ current_prefix = BasePrefix \o <<"_">>
    /\ record_start_wallclock = 0
    /\ comment_metadata_written = TRUE
    /\ dirs = {LogFolder}
    /\ PureIdle
    /\ \/ /\ comment_file_path = [dir |-> LogFolder,
                                  name |-> BasePrefix \o <<"_", TsAtom(0)>> \o <<".txt">>]
          /\ pendingPolls = 1
          /\ hist = Hist0
          /\ files = {File(LogFolder, comment_file_path.name, 0, <<"header">>)}
       \/ /\ comment_file_path = [dir |-> LogFolder,
                                  name |-> BasePrefix \o <<"_">> \o EngineToken \o <<".txt">>]
          /\ pendingPolls = 0
          /\ hist = [Hist0 EXCEPT !.attempts = 1, !.changes = 1, !.renames = 1]
          /\ files = {File(LogFolder, comment_file_path.name, 0, <<"header">>)}
                     \cup {File(LogFolder, n, 0, <<>>) : n \in EngineOutputs}

\* The timers, the engine, and an operator who uses Discard only: no Start
\* follows the run that the engine stopped.
NextSelfStopped ==
    \/ SyncTick
    \/ TryResolveCommentFilenamePoll
    \/ OnDiscardClick
    \/ EngineStopsItself
    \/ EngineStartsItself
    \/ EngineWrites
    \/ EngineDies
    \/ Tick

SpecSelfStopped == InitSelfStopped /\ [][NextSelfStopped]_vars

\* ===================================================================== claims
\* The Recording Run fields are all unset.
RunCleared ==
    /\ current_log_folder = None
    /\ current_prefix = NoPrefix
    /\ record_start_wallclock = NoStart
    /\ comment_file_path = NoPath

\* The last step was a tick of the background reconciliation that found the
\* tracked state recording and read the running flag as false.
TickSawEngineStopped ==
    last.h = "sync" /\ last.out = "False" /\ last.calls = <<"handle", "recording">>

\* C1: Start never overwrites a still-populated Recording Run: when the Start
\* branch populates the Recording Run fields, the fields of the previous run
\* have been cleared, in particular when the Start follows the tick that found
\* that the engine had stopped measuring.
C1_StartFindsRunCleared ==
    [][(TickSawEngineStopped /\ last'.h = "startstop"
            /\ last'.out \in {"started", "aborted"})
        => RunCleared]_vars

\* C2: a reconciliation tick is always pending, and after every tick that
\* finds the engine not measuring the tracked is_recording is false (and after
\* every tick it equals the running flag as the tick could read it).
C2_TickPendingAndConverges ==
    /\ [](pendingSync # "none")
    /\ [][last'.h = "sync"
            => is_recording' = (canoe /\ ~engBroken /\ engRunning)]_vars

\* C2 witness: the engine stopped measuring by itself during a run (the run
\* fields are still set), the next tick has run and is_recording is false.
C2_Witness ==
    /\ TickSawEngineStopped
    /\ canoe /\ ~engRunning /\ ~is_recording
    /\ ~RunCleared
    /\ pendingSync # "none"

\* C3: after a reconciliation tick in which reading the running flag raised,
\* the handle is none, is_recording is false, the Start/Stop, Discard and
\* Save-comment buttons are disabled and the status shows not connected.
C3_RaisingTickDisconnects ==
    (last.h = "sync" /\ last.out = "raise")
    => /\ ~canoe
       /\ ~is_recording
       /\ btn_record.state = "disabled"
       /\ btn_discard = "disabled"
       /\ btn_save_comment = "disabled"
       /\ last.status = Status("Not connected", "danger")

\* C4: for one Start the resolver makes at most MaxResolveTries resolution
\* attempts (the 30 of the specification).
C4_AtMostMaxAttempts == hist.attempts <= MaxResolveTries

\* C5: within one Recording Run the resolver's polling changes
\* comment_file_path at most once.
C5_PathChangesAtMostOnce == hist.changes <= 1

\* The entries of the run folder that survive the resolver's filters: regular
\* files whose name starts with the prefix, whose extension is not .txt, .avi
\* or .tmp, and whose modification time is not more than the tolerance older
\* than the Start.
C6_Survivors ==
    {p \in files :
        /\ p.dir = current_log_folder
        /\ p.kind = "file"
        /\ StartsWith(p.name, current_prefix)
        /\ Lower(PathSuffix(p.name)) \notin {".txt", ".avi", ".tmp"}
        /\ p.mtime >= record_start_wallclock - Tolerance}

\* The survivors of the latest modification time.
C6_Newest == {p \in C6_Survivors : \A q \in C6_Survivors : q.mtime <= p.mtime}

\* The step is a resolution attempt of a poll that finds nothing.
C6_NotFound == last'.h = "poll" /\ last'.out \in {"retry", "fallback"}

\* The step is a resolution attempt of a poll that finds a suffix.
C6_Found == last'.h = "poll" /\ last'.out \in {"resolved", "rename failed"}

\* C6 (amended): one resolution attempt returns the suffix of a survivor of the
\* latest modification time, and finds nothing exactly when there is no
\* survivor or that newest survivor has an empty suffix; a file older than the
\* tolerance is never chosen.
C6_ResolvesNewestSurvivor ==
    [][/\ C6_Found =>
            \E p \in C6_Newest :
               /\ DropPrefix(PathStem(p.name), current_prefix) # <<>>
               /\ last'.out = "resolved" =>
                     comment_file_path'.name = PathStem(p.name) \o <<".txt">>
       /\ C6_NotFound =>
            \/ C6_Survivors = {}
            \/ \E p \in C6_Newest : DropPrefix(PathStem(p.name), current_prefix) = <<>>
      ]_vars

\* C6 witness: a poll has resolved the token a in a folder that also holds a
\* log of the token ab older than the tolerance allows.
C6_Witness ==
    /\ last.h = "poll" /\ last.out = "resolved"
    /\ comment_file_path.name = BasePrefix \o <<"_", "a", ".txt">>
    /\ \E f \in files : /\ f.name = MainName(<<"a", "b">>)
                         /\ f.mtime + Tolerance < record_start_wallclock
    /\ \E f \in files : f.name = MainName(<<"a">>)

\* C6 as stated: the attempt finds nothing exactly when no survivor has a
\* non-empty suffix.
C6_NotFoundIffNoSuffix ==
    [][(C6_Found \/ C6_NotFound) =>
          (C6_NotFound <=>
             \A p \in C6_Survivors : DropPrefix(PathStem(p.name), current_prefix) = <<>>)
      ]_vars

\* C7: after a rename of the comment file has failed, the rename is not
\* attempted again in that run: at most one rename attempt per run (a rename
\* that succeeded ends the polling too).
C7_RenameAttemptedOnce == hist.renames <= 1

\* The files of the Recording Run in its folder: the outputs of the engine and
\* the comment file.
C8_RunFiles ==
    {f \in files :
        /\ f.dir = current_log_folder
        /\ f.name \in EngineOutputs \cup {comment_file_path.name}}

\* C8: a Discard whose stop and deletions all succeed removes every file of
\* the run from the run's folder, at whatever point of the run it is invoked
\* (the folder can then be removed, being empty of the run's files).
C8_DiscardRemovesRunFiles ==
    [][(last'.h = "discard" /\ last'.out = "discarded")
        => \A f \in C8_RunFiles : f \notin files']_vars

\* The run's suffix when it is known: the resolver has resolved it and the
\* newest surviving output in the folder still carries it; <<>> otherwise.
C9_KnownSuffix ==
    IF /\ hist.changes >= 1 /\ hist.fallbacks = 0 /\ comment_file_path # NoPath
       /\ C6_Survivors # {}
       /\ \A p \in C6_Newest :
             PathStem(p.name) = PathStem(comment_file_path.name)
    THEN DropPrefix(PathStem(comment_file_path.name), current_prefix)
    ELSE <<>>

\* The names of the main form PREFIX_<suffix>.<ext> and of the video form
\* _PREFIX_<suffix>_<name>.avi for the known suffix.
C9_ExactName(name) ==
    \/ /\ PathSuffix(name) # ""
       /\ PathStem(name) = current_prefix \o C9_KnownSuffix
    \/ /\ PathSuffix(name) = ".avi"
       /\ Len(name) = Len(current_prefix) + Len(C9_KnownSuffix) + 4
       /\ StartsWith(name, <<"_">> \o current_prefix \o C9_KnownSuffix \o <<"_">>)

\* C9: when the run's suffix is known, Discard deletes only files named by the
\* prefix followed by exactly that suffix.
C9_DiscardDeletesExactSuffix ==
    [][(last'.h = "discard" /\ last'.out \in {"discarded", "delete errors"}
            /\ C9_KnownSuffix # <<>>)
        => \A f \in files \ files' : C9_ExactName(f.name)]_vars

\* C10: a Discard with no handle or with is_recording false calls no engine
\* operation, deletes no file, removes no folder, changes no Recording Run
\* field and reports that there is nothing to discard; a Discard whose engine
\* stop raises deletes no file and changes no Recording Run field.
C10_RefusedDiscardIsNoOp ==
    /\ [][(last'.h = "discard" /\ (~canoe \/ ~is_recording))
            => /\ last'.calls = <<>>
               /\ UNCHANGED <<files, dirs, runVars, engVars>>
               /\ last'.status = Status("No active recording to discard", "warning")]_vars
    /\ [][(last'.h = "discard" /\ last'.out = "stop failed")
            => UNCHANGED <<files, dirs, runVars>>]_vars

\* C10 witness: a Discard without a handle has been refused during a run whose
\* files are in the folder.
C10_Witness ==
    /\ last.h = "discard" /\ last.out = "nothing"
    /\ ~canoe /\ is_recording
    /\ ~RunCleared
    /\ \E f \in files : f.name \in EngineOutputs

\* The step is a Start/Stop click that entered the Start branch and went past
\* the checks of the log root.
StartAttempted == last'.h = "startstop" /\ last'.out \in {"started", "aborted"}

\* Call a is made, and before call b, in the sequence of calls c.
CalledBefore(c, a, b) ==
    \E i, j \in 1..Len(c) : i < j /\ c[i] = a /\ c[j] = b

\* Call a is made in the sequence of calls c.
Called(c, a) == \E i \in 1..Len(c) : c[i] = a

\* C11: Start follows a fixed order: the run folder is created, then every
\* logging sink and every video sink is rewritten, then start-measurement is
\* invoked, then the resolver polling is armed; start-measurement is never
\* invoked before all sinks have been rewritten, and polling is never armed
\* before start-measurement has returned.
C11_StartOrder ==
    [][StartAttempted =>
          LET c == last'.calls
          IN /\ (Called(c, "start") \/ Called(c, "start raises")) =>
                   /\ CalledBefore(c, "mkdir", "logging sinks")
                   /\ CalledBefore(c, "logging sinks", "video sinks")
                   /\ \/ CalledBefore(c, "video sinks", "start")
                      \/ CalledBefore(c, "video sinks", "start raises")
             /\ Called(c, "after_poll") =>
                   /\ CalledBefore(c, "start", "after_poll")
                   /\ pendingPolls' = pendingPolls + 1
             /\ ~Called(c, "after_poll") => pendingPolls' = pendingPolls
      ]_vars

\* The calls of a Start in which an exception was raised while configuring a
\* sink or invoking start-measurement.
StartRaised(c) ==
    \/ Called(c, "logging sinks raise")
    \/ Called(c, "video sinks raise")
    \/ Called(c, "start raises")

\* C12: when an exception is raised while configuring a logging sink or a
\* video sink or invoking start-measurement, Start aborts: an error is
\* reported, the raising call is the last step of Start (start-measurement is
\* not invoked, the polling is not armed, the engine is not started) and
\* is_recording stays false.
C12_RaisingStartAborts ==
    [][(StartAttempted /\ StartRaised(last'.calls)) =>
          LET c == last'.calls
          IN /\ last'.out = "aborted"
             /\ last'.status = Status("Error on logging setup/start", "danger")
             /\ c[Len(c)] \in {"logging sinks raise", "video sinks raise", "start raises"}
             /\ pendingPolls' = pendingPolls
             /\ engRunning' = engRunning
             /\ ~is_recording => ~is_recording'
      ]_vars

C14_AbortedStartLeavesNoRun ==
    [][(last'.h = "startstop" /\ last'.out = "aborted") =>
          /\ current_log_folder' = None
          /\ current_prefix' = NoPrefix
          /\ record_start_wallclock' = NoStart
          /\ comment_file_path' = NoPath
          /\ \A f \in files' \ files : PathSuffix(f.name) # ".txt"
      ]_vars

\* C15: the reconciliation (_sync_measurement_ui, run by the timer and once by
\* a successful connect) is the only writer of is_recording: the Start, Stop,
\* Discard and Save-comment handlers, the resolver poll and the engine leave
\* it unchanged, also when the engine's stop raises; and after every
\* reconciliation tick is_recording is true exactly when the tick read the
\* running flag as true (false without a handle or when the read raised).
C15_SyncIsOnlyWriter ==
    /\ [][last'.h \in {"startstop", "discard", "save", "poll", "engine", "clock"}
             => is_recording' = is_recording]_vars
    /\ [][last'.h = "sync" =>
             /\ is_recording' = (last'.out = "True")
             /\ last'.out = (IF ~canoe THEN "False"
                             ELSE IF engBroken THEN "raise"
                             ELSE IF engRunning THEN "True" ELSE "False")]_vars

\* C15 witness: the engine's stop has just raised in a Stop click during a
\* run and is_recording is still true.
C15_Witness ==
    /\ last.h = "startstop" /\ last.out = "stop failed"
    /\ is_recording /\ engRunning /\ ~RunCleared

\* Texts a and b joined with "_", an empty one being left out.
C16_Joined(a, b) ==
    IF a = <<>> THEN b ELSE IF b = <<>> THEN a ELSE a \o <<"_">> \o b

\* C16: the name prefix computed at Start contains no space and is the
\* non-empty ones of release, vehicle token and tag, spaces replaced by
\* underscores, joined by single underscores, an empty one being left out.
C16_PrefixJoinsNonEmpty ==
    last.h = "naming" =>
        LET rel == [i \in 1..Len(form.sw_rel) |->
                       IF form.sw_rel[i] = " " THEN "_" ELSE form.sw_rel[i]]
            tag == [i \in 1..Len(form.log_tag) |->
                       IF form.log_tag[i] = " " THEN "_" ELSE form.log_tag[i]]
        IN /\ \A i \in 1..Len(naming.base_prefix) : naming.base_prefix[i] # " "
           /\ naming.base_prefix = C16_Joined(C16_Joined(rel, naming.veh), tag)

\* C16 witness: the name has been computed for a form with a release, a
\* vehicle and an empty tag.
C16_Witness ==
    /\ last.h = "naming"
    /\ form.sw_rel = <<"x", "x">> /\ form.log_tag = <<>> /\ form.number = <<"6">>
    /\ form.descriptor = <<>>
    /\ naming.base_prefix = <<"x", "x", "_", "Veh", "6">>

\* C17: the vehicle token is sanitize(descriptor) + "_Veh" + fleet number
\* when the vehicle has a descriptor and a fleet number, "Veh" + fleet number
\* when it has only a fleet number, and the sanitized vehicle id in every
\* other case, with or without a descriptor.
C17_VehicleToken ==
    last.h = "naming" =>
        LET desc == Strip(form.descriptor)
            vid == Strip(form.vehicle_id)
            underscored(t) == [i \in 1..Len(t) |-> IF t[i] = " " THEN "_" ELSE t[i]]
        IN  naming.veh =
              (IF desc # <<>> /\ form.number # <<>>
               THEN underscored(desc) \o <<"_", "Veh">> \o form.number
               ELSE IF form.number # <<>> THEN <<"Veh">> \o form.number
               ELSE underscored(vid))

\* Tuple a sorts before or with tuple b in descending lexicographic order:
\* a is not a proper prefix of b and at the first difference a is greater.
C18_HintNotAfter(a, b) ==
    \/ a = b
    \/ \E k \in 1..Len(a) :
          /\ \A i \in 1..(k - 1) : i <= Len(b) /\ a[i] = b[i]
          /\ (k > Len(b) \/ a[k] > b[k])

\* Label a sorts before or with label b when case is ignored.
C18_LabelNotAfter(a, b) ==
    LET la == [i \in 1..Len(a) |-> IF a[i] \in 65..90 THEN a[i] + 32 ELSE a[i]]
        lb == [i \in 1..Len(b) |-> IF b[i] \in 65..90 THEN b[i] + 32 ELSE b[i]]
    IN  \/ la = lb
        \/ \E k \in 1..Len(lb) :
              /\ \A i \in 1..(k - 1) : i <= Len(la) /\ la[i] = lb[i]
              /\ (k > Len(la) \/ la[k] < lb[k])

\* C18: the list discover() returns is ordered by version hint in descending
\* lexicographic tuple order, empty hints last, and entries with equal hints
\* by case-insensitive label ascending.
C18_SortedByHintThenLabel ==
    last.h = "discover" =>
        \A i, j \in 1..Len(installs) :
            i < j =>
               /\ C18_HintNotAfter(installs[i].version_hint, installs[j].version_hint)
               /\ installs[i].version_hint = installs[j].version_hint
                     => C18_LabelNotAfter(installs[i].label, installs[j].label)

\* C18 witness: installations with hints (5,1,0), (5,2,0) and () were found
\* in this order and the list has them as (5,2,0), (5,1,0), ().
C18_Witness ==
    /\ last.h = "discover"
    /\ Len(scan) = 3
    /\ scan[1].version_hint = <<5, 1, 0>> /\ scan[2].version_hint = <<5, 2, 0>>
    /\ scan[3].version_hint = <<>>
    /\ Len(installs) = 3
    /\ installs[1].version_hint = <<5, 2, 0>> /\ installs[2].version_hint = <<5, 1, 0>>
    /\ installs[3].version_hint = <<>>

\* The path with its separators unified and its letters in lower case.
C19_Key(path) ==
    [i \in 1..Len(path) |->
        IF path[i] = "/" THEN "\\"
        ELSE IF path[i] = "A" THEN "a" ELSE IF path[i] = "B" THEN "b"
        ELSE IF path[i] = "C" THEN "c"
        ELSE IF path[i] = "E" THEN "e" ELSE path[i]]

\* C19: the list discover() returns never holds two installations with the
\* same normalized executable path; of the candidates with one path key
\* exactly one is in the list, the first one met in scan order.
C19_OnePerPathKey ==
    last.h = "discover" =>
        /\ \A i, j \in 1..Len(installs) :
              C19_Key(installs[i].exec_path) = C19_Key(installs[j].exec_path) => i = j
        /\ \A n \in 1..Len(scan) :
              LET first == CHOOSE m \in 1..n :
                              /\ C19_Key(scan[m].exec_path) = C19_Key(scan[n].exec_path)
                              /\ \A l \in 1..(m - 1) :
                                    C19_Key(scan[l].exec_path) # C19_Key(scan[n].exec_path)
              IN  \E i \in 1..Len(installs) : installs[i] = scan[first]
        /\ \A i \in 1..Len(installs) : \E n \in 1..Len(scan) :
              /\ installs[i] = scan[n]
              /\ \A l \in 1..(n - 1) :
                    C19_Key(scan[l].exec_path) = C19_Key(scan[n].exec_path)
                       => scan[l] = scan[n]

\* C19 witness: two spellings of one executable were found, under different
\* labels, and the list holds only the first.
C19_Witness ==
    /\ last.h = "discover"
    /\ Len(scan) = 2
    /\ scan[1].exec_path = <<"a", "/", "E">> /\ scan[2].exec_path = <<"A", "\\", "e">>
    /\ scan[1].label # scan[2].label
    /\ installs = <<scan[1]>>

\* C20: attach and spawn never give a handle for which the predicate did not
\* hold; the handle obtained is the first one, in round order and within a
\* round in list order, whose answer is a handle satisfying the version
\* predicate (a candidate that raises is passed over), spawn being consulted
\* only when no attach answer satisfies it; when no answer satisfies it the
\* attempt obtains none and the window holds no handle; a held handle
\* satisfied the predicate of the installation selected at connect time.
C20_Ok(e, o) ==
    /\ o.kind = "handle"
    /\ \/ e = <<>>
       \/ o.readable /\ Len(o.Version) > 0 /\ e = <<o.Version[1]>>

C20_Probes == (1..MaxRounds) \X (1..Len(ProgIdCandidates))

C20_Earlier(p, q) == p[1] < q[1] \/ (p[1] = q[1] /\ p[2] < q[2])

C20_First(e, table, p) ==
    /\ C20_Ok(e, table[p[1]][p[2]])
    /\ \A q \in C20_Probes : C20_Earlier(q, p) => ~C20_Ok(e, table[q[1]][q[2]])

C20_NoneOk(e, table) == \A p \in C20_Probes : ~C20_Ok(e, table[p[1]][p[2]])

C20_HandleSatisfiedPredicate ==
    last.h = "connect" =>
        LET e == conn.expected
            h == conn.handle
        IN  /\ h # NoHandle => C20_Ok(e, h)
            /\ \A p \in C20_Probes :
                 C20_First(e, conn.attach, p) => h = conn.attach[p[1]][p[2]]
            /\ C20_NoneOk(e, conn.attach) =>
                 /\ \A p \in C20_Probes :
                      C20_First(e, conn.spawn, p) => h = conn.spawn[p[1]][p[2]]
                 /\ C20_NoneOk(e, conn.spawn) =>
                      h = NoHandle /\ ~canoe /\ last.out = "failed"
            /\ canoe => C20_Ok(e, h)
            /\ canoe <=> h # NoHandle

\* Expected major 5: attach meets a handle of major 6, one whose Version
\* cannot be read and a server that raises; spawn meets the same and, last in
\* its second round, a handle of major 5, which is the one held.
C20_Witness ==
    /\ last.h = "connect"
    /\ canoe
    /\ conn.expected = <<5>>
    /\ conn.attach = <<<<Handle(TRUE, <<6, 0>>), Handle(FALSE, <<>>)>>,
                       <<Raises, Handle(TRUE, <<6, 0>>)>>>>
    /\ conn.spawn = <<<<Raises, Handle(TRUE, <<6, 0>>)>>,
                      <<Handle(FALSE, <<>>), Handle(TRUE, <<5, 0>>)>>>>
    /\ conn.handle = Handle(TRUE, <<5, 0>>)

\* A connect attempt in which attach and spawn both give none: no handle held.
C20_WitnessNone ==
    /\ last.h = "connect"
    /\ last.out = "failed"
    /\ ~canoe
    /\ conn.expected = <<5>>
    /\ conn.handle = NoHandle
    /\ conn.attach[1][1] = Handle(TRUE, <<6, 0>>)
    /\ conn.spawn[MaxRounds][1] = Raises

\* C21: loading a state file that was saved from a state gives that state,
\* field for field, whether or not unrecognized members were added to the
\* file since; loading a missing or unparsable file, or one that holds no
\* object, gives the default state.
C21_LoadReturnsSaved ==
    last.h = "load_state" =>
        /\ store.file.kind = "object" =>
              \A k \in Fields : store.loaded[k] = store.state[k]
        /\ store.file.kind # "object" =>
              \A k \in Fields : store.loaded[k] = <<>>

\* A state with a backslash and a quote in its log folder was saved, an
\* unrecognized member was added to the file, and the state was loaded back.
C21_Witness ==
    /\ last.h = "load_state"
    /\ store.file.kind = "object"
    /\ UnknownIn(store.file) # {}
    /\ store.state["log_dir"] = <<"\\", "\"">>
    /\ store.state["tag"] = <<"a">>
    /\ store.loaded = store.state

\* C22: a save-comment never changes a Recording Run field; it changes the
\* files only when a handle is held, is_recording is true and
\* comment_file_path is set, and then only the file at comment_file_path, to
\* whose content it appends the one line "[" + elapsed time + "] " + text +
\* newline; in every other state it leaves files and folders as they are.
C22_Savable == canoe /\ is_recording /\ comment_file_path # NoPath

C22_SaveAppendsOneLine ==
    [][last'.h = "save" =>
         /\ UNCHANGED runVars
         /\ ~C22_Savable => UNCHANGED <<files, dirs>>
         /\ files' # files =>
              /\ C22_Savable
              /\ Without(files', comment_file_path) = Without(files, comment_file_path)
              /\ \E f \in files', sec \in 0..MaxClock :
                    /\ f.dir = comment_file_path.dir /\ f.name = comment_file_path.name
                    /\ f.content =
                         (IF Exists(files, comment_file_path)
                          THEN FileAt(files, comment_file_path).content ELSE <<>>)
                         \o <<<<"[", FormatSeconds(sec), "] ", "note", "\n">>>>]_vars

\* A comment was saved while recording: the comment file holds the header and
\* the line.
C22_Witness ==
    /\ last.h = "save" /\ last.out = "saved"
    /\ canoe /\ is_recording
    /\ comment_file_path # NoPath
    /\ Exists(files, comment_file_path)
    /\ FileAt(files, comment_file_path).content =
          <<"header", <<"[", FormatSeconds(0), "] ", "note", "\n">>>>

\* C23 as stated: a save of an empty or white-space-only comment, in any
\* state, changes nothing and sets a warning, never an error.
C23_Blank(step) == step.h = "save" /\ step.calls \in {<<"">>, <<"  ">>}

C23_EmptyIsWarningEverywhere ==
    [][C23_Blank(last') =>
         /\ UNCHANGED <<progVars, runVars, timerVars, engVars, fsVars>>
         /\ last'.status.tone = "warning"]_vars

\* C23 amended: a save of an empty or white-space-only comment changes
\* nothing; with a handle held and is_recording true it sets the warning
\* "Empty comment, not saved", otherwise it sets the error "Cannot save
\* comment (not recording)", as a save of any text does in that state.
C23_EmptyIsNoOp ==
    [][C23_Blank(last') =>
         /\ UNCHANGED <<progVars, runVars, timerVars, engVars, fsVars>>
         /\ last'.status = (IF canoe /\ is_recording
                            THEN Status("Empty comment, not saved", "warning")
                            ELSE Status("Cannot save comment (not recording)", "danger"))]_vars

\* A white-space-only comment was saved while recording, the comment file
\* being there: a warning, and the file holds the header only.
C23_Witness ==
    /\ last.h = "save" /\ last.calls = <<"  ">>
    /\ last.status = Status("Empty comment, not saved", "warning")
    /\ canoe /\ is_recording
    /\ Exists(files, comment_file_path)
    /\ FileAt(files, comment_file_path).content = <<"header">>

\* C24: in every state log_folder, name_prefix, start_wallclock and
\* comment_file_path are all set or all unset, and a Stop or a Discard whose
\* engine stop succeeded leaves all four unset and metadata_written false.
C24_AllSet ==
    /\ current_log_folder # None
    /\ current_prefix # NoPrefix
    /\ record_start_wallclock # NoStart
    /\ comment_file_path # NoPath

C24_AllUnset ==
    /\ current_log_folder = None
    /\ current_prefix = NoPrefix
    /\ record_start_wallclock = NoStart
    /\ comment_file_path = NoPath

C24_StopSucceeded ==
    \/ last'.h = "startstop" /\ last'.out = "stopped"
    \/ last'.h = "discard" /\ last'.out \in {"discarded", "delete errors"}

C24_SetAndClearedTogether ==
    /\ [](C24_AllSet \/ C24_AllUnset)
    /\ [][C24_StopSucceeded => C24_AllUnset' /\ ~comment_metadata_written']_vars

\* A run whose comment file was renamed by the resolver was stopped: the
\* fields are unset again while the renamed comment file is on disk.
C24_Witness ==
    /\ last.h = "startstop" /\ last.out = "stopped"
    /\ C24_AllUnset
    /\ ~comment_metadata_written
    /\ \E f \in files : f.name = BasePrefix \o <<"_">> \o EngineToken \o <<".txt">>

\* C25: name_prefix, log_folder and start_wallclock are written by Start,
\* Stop and Discard only: a resolver poll (resolved, rename failed, retry,
\* fallback), a sync tick, a comment save, a change of release, vehicle or
\* tag in the window, and what the engine or the clock do leave the three
\* fields as they are.
C25_RunNamingIsFrozen ==
    [][last'.h \notin {"startstop", "discard"} =>
         UNCHANGED <<current_prefix, current_log_folder, record_start_wallclock>>]_vars

\* While the run of the Start at wall clock 0 is set, the resolver has given
\* up and set the fallback name, a comment has been saved to it, and release,
\* vehicle and tag have all been changed in the window.
C25_Witness ==
    /\ current_prefix = BasePrefix \o <<"_">>
    /\ current_log_folder = LogFolder
    /\ record_start_wallclock = 0
    /\ hist.fallbacks = 1
    /\ form.sw_rel = <<"x">> /\ form.vehicle_id = <<"x">> /\ form.log_tag = <<"x">>
    /\ last.h = "save" /\ last.out = "saved"

\* C26: the polling of the resolver ends: from a state in which a resolver
\* poll callback is pending and the last step was not the operator's, a state
\* is reached in which no poll callback is pending, unless the operator acts
\* again (Connect, Start/Stop, Discard) before. A run started at the last
\* value of the wall clock is left out: its fallback lies beyond the clock.
C26_OperatorSteps == {"connect", "startstop", "discard"}

C26_PollingEnds ==
    (/\ pendingPolls > 0
     /\ last.h \notin C26_OperatorSteps
     /\ record_start_wallclock < MaxClock)
    ~> (pendingPolls = 0 \/ last.h \in C26_OperatorSteps)

\* The polling of a run ended with the fallback name: every attempt failed,
\* no poll callback is pending.
C26_Witness ==
    /\ last.h = "poll" /\ last.out = "fallback"
    /\ pendingPolls = 0
    /\ hist.attempts = MaxResolveTries + 1
    /\ current_log_folder # None

\* C27: at most one _sync_measurement_ui callback is pending on the event
\* loop in every state, whatever connects, handle losses and reconnects
\* happened.
C27_AtMostOneSyncPending == pendingSync \in {"none", "one"}

\* C28: at most one resolver poll callback is pending in every state, also
\* when a Start follows a Stop or an engine self-stop before the poll of the
\* run before has fired.
C28_AtMostOnePollPending == pendingPolls <= 1

\* C29: while a Recording Run is set whose header was written, whatever the
\* program wrote into a file of the run folder (the header, the comments) is
\* in the file comment_file_path designates, the header first.
C29_CommentFileKeepsContent ==
    (C24_AllSet /\ comment_metadata_written) =>
        \A f \in FilesIn(files, current_log_folder) :
            f.content # <<>> =>
                /\ f.name = comment_file_path.name
                /\ Head(f.content) = "header"

\* C30: Discard deletes only files of the measurement that is running when it
\* is invoked. After a run that the engine ended by stopping by itself, with
\* no new Start (SpecSelfStopped), a Discard that runs its deletion (the
\* engine has been seen running again) unlinks none of the files the program
\* wrote for that earlier run, i.e. its comment file, and removes no folder.
C30_DiscardRan == last'.h = "discard" /\ last'.out \in {"discarded", "delete errors"}

C30_DiscardSparesEarlierRun ==
    [][C30_DiscardRan =>
          /\ \A f \in files : f.content # <<>> => f \in files'
          /\ dirs' = dirs]_vars
====
